---- MODULE Spec2Model ----
(***************************************************************************)
(* A model of the voyager node's Kademlia topology manager                 *)
(* (pkg/kademlia): the connected/known peer slices, the neighborhood       *)
(* depth, saturation, the retry/backoff map, the manage loop and the       *)
(* notifier callbacks Connected / Disconnected, together with the          *)
(* collaborators it drives (address book, p2p service, discovery).         *)
(*                                                                         *)
(* Time is counted in seconds.  Overlay addresses are AddrBits-bit         *)
(* numbers, bit 0 being the most significant bit.                          *)
(***************************************************************************)
EXTENDS Integers, FiniteSets, Sequences, TLC

----------------------------------------------------------------------------
(* Program constants (kademlia.go) *)

nnLowWatermark == 2
maxConnAttempts == 3
maxBootnodeAttempts == 3
defaultBitSuffixLength == 2
timeToRetry == 60
shortRetry == 30
saturationPeers == 4
overSaturationPeers == 16
manageTick == 30
maxBootnodes == 3

(* Bounds of the model *)

MaxPO == 3
MaxTime == 60
LongTime == 240
MaxCalls == 2
MaxTopologyCalls == 3
CrowdSize == 17
MaxSubscribers == 2

\* the longest list of peers given to BroadcastPeers
MaxBroadcast == 62

\* the number of chunk requests served
MaxGets == 3

\* the number of chunks pushed
MaxPushes == 2

\* the number of Write calls on a chunk pipe
MaxWrites == 3
MaxBoots == 3
MaxAnnounces == 3
MaxAdds == 3
MaxOps == 3
MaxData == 5
PrefixBits == 16

MaxBins == MaxPO + 1
Bins == 0 .. MaxPO
AddrBits == MaxBins + defaultBitSuffixLength + 2

----------------------------------------------------------------------------
(* Address algebra (package infinity) *)

Pow2(n) == 2 ^ n

Bit(a, i) == (a \div Pow2(AddrBits - 1 - i)) % 2

SetMin(S) == CHOOSE x \in S : \A y \in S : x <= y

SetMax(S) == CHOOSE x \in S : \A y \in S : x >= y

\* number of leading bits a and b share
ExtendedProximity(a, b) ==
    LET RECURSIVE First(_)
        First(i) == IF i = AddrBits THEN AddrBits
                    ELSE IF Bit(a, i) # Bit(b, i) THEN i
                    ELSE First(i + 1)
    IN  First(0)

\* proximity order, capped at MaxPO
Proximity(a, b) ==
    LET ep == ExtendedProximity(a, b)
    IN  IF ep > MaxPO THEN MaxPO ELSE ep

\* compares the XOR distances of x and y to a, from the first bit on:
\* 1: x is closer to a than y, -1: y is closer, 0: x = y
DistanceCmp(a, x, y) ==
    LET RECURSIVE Cmp(_)
        Cmp(i) == IF i = AddrBits THEN 0
                  ELSE IF Bit(x, i) = Bit(y, i) THEN Cmp(i + 1)
                  ELSE IF Bit(x, i) = Bit(a, i) THEN 1
                  ELSE 0 - 1
    IN  Cmp(0)

----------------------------------------------------------------------------
(* The node and the overlays it can meet *)

base == 90

\* the address sharing exactly po leading bits with base (its bit po is
\* base's flipped), followed by the bits of tail
AddressAt(po, tail) ==
    LET w == Pow2(AddrBits - 1 - po)
    IN  (base \div (2 * w)) * (2 * w) + (1 - Bit(base, po)) * w + tail

P0 == AddressAt(0, 1)
P1 == AddressAt(1, 2)
P2 == AddressAt(2, 2)
P3 == AddressAt(3, 3)
Stranger == AddressAt(0, 2 * CrowdSize + 6)

Peers == {P0, P1}
TopologyPeers == {P0, P2, P3}
PrunePeers == {P1}

\* a crowd of peers of one shallow bin, and a few deeper ones
CrowdFirst(n) == {AddressAt(0, 1 + i) : i \in 1 .. n}
Crowd == CrowdFirst(CrowdSize)
Latecomer == AddressAt(0, 1 + CrowdSize)
Deep == {AddressAt(1, 1), AddressAt(2, 1), AddressAt(3, 1), AddressAt(3, 2)}

\* one peer of every quarter of every bin: po leading bits shared with base,
\* then two bits j, and a last bit set
BalancePeers ==
    {AddressAt(po, j * Pow2(AddrBits - 3 - po) + 1) : po \in Bins, j \in 0 .. 3}

AllPeers == {P0, P1, P2, P3} \cup Crowd \cup Deep \cup {Stranger} \cup BalancePeers

\* po := infinity.Proximity(k.base.Bytes(), peer.Bytes())
ProximityOfBase == [p \in 0 .. Pow2(AddrBits) - 1 |-> Proximity(base, p)]
PO(p) == ProximityOfBase[p]

----------------------------------------------------------------------------
(* pslice.PSlice: a set of peers indexed by proximity order *)

BinOf(peers, bin) == {p \in peers : PO(p) = bin}

Length(peers) == Cardinality(peers)

Exists(peers, p) == p \in peers

Add(peers, p) == peers \cup {p}

Remove(peers, p) == peers \ {p}

\* the lowest bin holding no peer, and whether there is none
ShallowestEmpty(peers) ==
    LET empty == {b \in Bins : BinOf(peers, b) = {}}
    IN  IF empty = {} THEN [bin |-> 0, none |-> TRUE]
        ELSE [bin |-> SetMin(empty), none |-> FALSE]

----------------------------------------------------------------------------
(* Depth and saturation *)

\* variants of recalcDepth to compare it with: one that takes the candidate
\* whatever bins are empty, one that takes the shallowest empty bin whatever
\* the candidate
recalcDepthShallowestEmpty(peers) ==
    LET se == ShallowestEmpty(peers)
    IN  IF Length(peers) <= nnLowWatermark THEN 0
        ELSE IF se.none THEN MaxPO ELSE se.bin

recalcDepthNoEmptyCheck(peers) ==
    LET RECURSIVE Walk(_, _)
        Walk(b, ctr) ==
            IF ctr + Length(BinOf(peers, b)) >= nnLowWatermark THEN b
            ELSE IF b = 0 THEN 0
            ELSE Walk(b - 1, ctr + Length(BinOf(peers, b)))
    IN  IF Length(peers) <= nnLowWatermark THEN 0 ELSE Walk(MaxPO, 0)

\* recalcDepth: EachBin walks the peers from the deepest bin to the
\* shallowest; the candidate is the bin of the peer at which the counter
\* reaches nnLowWatermark.
recalcDepth(peers) ==
    LET RECURSIVE Walk(_, _)
        Walk(b, ctr) ==
            IF ctr + Length(BinOf(peers, b)) >= nnLowWatermark THEN b
            ELSE IF b = 0 THEN 0
            ELSE Walk(b - 1, ctr + Length(BinOf(peers, b)))
        se == ShallowestEmpty(peers)
        candidate == Walk(MaxPO, 0)
    IN  IF Length(peers) <= nnLowWatermark THEN 0
        ELSE IF se.none \/ se.bin > candidate THEN candidate
        ELSE se.bin

\* a variant of binSaturated to compare it with: the depth is that of the
\* connected peers
binSaturatedByConnectedDepth(bin, peers, connected) ==
    LET size == Length(BinOf(connected, bin))
    IN  IF bin >= recalcDepth(connected)
        THEN [saturated |-> FALSE, oversaturated |-> FALSE]
        ELSE [saturated |-> size >= saturationPeers,
              oversaturated |-> size >= overSaturationPeers]

\* binSaturated(bin, peers, connected): peers is the known-peers slice
binSaturated(bin, peers, connected) ==
    LET potentialDepth == recalcDepth(peers)
        size == Length(BinOf(connected, bin))
    IN  IF bin >= potentialDepth
        THEN [saturated |-> FALSE, oversaturated |-> FALSE]
        ELSE [saturated |-> size >= saturationPeers,
              oversaturated |-> size >= overSaturationPeers]

\* New: the default saturation function is binSaturated
saturationFunc(bin, peers, connected) == binSaturated(bin, peers, connected)

----------------------------------------------------------------------------
(* State *)

VARIABLES
    knownPeers,        \* k.knownPeers
    connectedPeers,    \* k.connectedPeers
    depth,             \* k.depth
    waitNext,          \* k.waitNext: peer -> retryInfo, or NoInfo
    manageC,           \* k.manageC: the one-slot wake-up channel of manage
    peerSig,           \* k.peerSig: the one-slot channels of the subscribers
    bootnode,          \* k.bootnode
    standalone,        \* k.standalone
    bitSuffixLength,   \* k.bitSuffixLength
    bootnodes,         \* k.bootnodes: the overlay behind each bootnode underlay
    addressBook,       \* overlays with an address book entry
    p2pPeers,          \* overlays the p2p service holds a connection to
    now,               \* the clock
    mg,                \* the manage goroutine: its position and locals
    out,               \* what the last step returned, sent and dialed
    hist,              \* history: what happened to each peer, and when
    node               \* the node's other services: store, retrieval, accounting

vars == <<knownPeers, connectedPeers, depth, waitNext, manageC, peerSig,
          bootnode, standalone, bitSuffixLength, bootnodes, addressBook, p2pPeers,
          now, mg, out, hist, node>>

config == <<bootnode, standalone, bitSuffixLength, bootnodes>>

None == 0 - 1

\* Go maps: a function whose domain is the set of keys present
Has(m, key) == key \in DOMAIN m
Get(m, key, zero) == IF key \in DOMAIN m THEN m[key] ELSE zero
Put(m, key, v) == [x \in DOMAIN m \cup {key} |-> IF x = key THEN v ELSE m[x]]
Delete(m, key) == [x \in DOMAIN m \ {key} |-> m[x]]
EmptyMap == [x \in {} |-> 0]

retryInfo(t, n) == [tryAfter |-> t, failedAttempts |-> n]

\* what a step returned (ret), the broadcasts it sent (sent) and the peer it
\* tried to connect to (dial)
Out(op, peer, ret, sent, dial) ==
    [op |-> op, peer |-> peer, ret |-> ret, sent |-> sent, dial |-> dial]
NoOut == Out("none", None, "none", {}, None)

\* a node of which only the topology is looked at
NoNode == [service |-> "none"]

MgIdle == [pc |-> "idle", pos |-> 0, todo |-> {}, bidx |-> 0, attempts |-> 0,
           connected |-> 0]

\* disc: when Disconnected was called for a peer, if less than timeToRetry
\* ago and the peer was not connected since; fail: when a connect to a peer
\* failed with no retry hint, if less than timeToRetry ago and the peer was
\* not connected since; fails: the connect failures of a peer since its
\* address book entry was put; impure: the peers something else than plain
\* connect failures happened to; calls: the calls made by the p2p service
NoHist == [disc |-> EmptyMap, fail |-> EmptyMap, fails |-> EmptyMap,
           impure |-> {}, calls |-> 0, dials |-> EmptyMap, joined |-> {},
           configured |-> 0]

\* the history forgets what is timeToRetry old at time t
Recent(m, t) == [x \in {y \in DOMAIN m : t < m[y] + timeToRetry} |-> m[x]]

\* a variant of New to compare it with: the suffix length is taken as given
NewAsConfigured(o) ==
    [knownPeers |-> {},
     connectedPeers |-> {},
     depth |-> 0,
     waitNext |-> EmptyMap,
     manageC |-> 0,
     peerSig |-> <<>>,
     bootnode |-> o.BootnodeMode,
     standalone |-> o.StandaloneMode,
     bitSuffixLength |-> o.BitSuffixLength,
     bootnodes |-> o.Bootnodes]

\* New(base, addressbook, discovery, p2p, logger, o)
New(o) ==
    [knownPeers |-> {},
     connectedPeers |-> {},
     depth |-> 0,
     waitNext |-> EmptyMap,
     manageC |-> 0,
     peerSig |-> <<>>,
     bootnode |-> o.BootnodeMode,
     standalone |-> o.StandaloneMode,
     bitSuffixLength |-> IF o.BitSuffixLength = 0 THEN defaultBitSuffixLength
                         ELSE o.BitSuffixLength,
     bootnodes |-> o.Bootnodes]

\* the node is k, a Kad
Kad(k) ==
    /\ knownPeers = k.knownPeers
    /\ connectedPeers = k.connectedPeers
    /\ depth = k.depth
    /\ waitNext = k.waitNext
    /\ manageC = k.manageC
    /\ peerSig = k.peerSig
    /\ bootnode = k.bootnode
    /\ standalone = k.standalone
    /\ bitSuffixLength = k.bitSuffixLength
    /\ bootnodes = k.bootnodes

Options(sm, bm, bsl, bn) ==
    [StandaloneMode |-> sm, BootnodeMode |-> bm, BitSuffixLength |-> bsl,
     Bootnodes |-> bn]

----------------------------------------------------------------------------
(* Helpers of the handlers *)

\* a variant of Signal to compare it with: the channel has no slot, the
\* send gets through only while manage waits to receive
SignalUnbuffered(c) == IF mg.pc = "idle" THEN 1 ELSE c

\* the non-blocking send on a one-slot channel
Signal(c) == 1

\* a variant of notifyPeerSig to compare it with: the loop ends after the
\* first subscriber
notifyPeerSigFirst(sig) ==
    [i \in DOMAIN sig |-> IF i = 1 THEN Signal(sig[i]) ELSE sig[i]]

\* notifyPeerSig: a non-blocking send to every subscriber
notifyPeerSig(sig) == [i \in DOMAIN sig |-> Signal(sig[i])]

\* a variant of Sanctioned to compare it with: no peer is ever held back
NeverSanctioned(p) == FALSE

\* spf of manage, and the same test of the bin-filling pass
Sanctioned(p) == Has(waitNext, p) /\ now < waitNext[p].tryAfter

\* announce(peer): one broadcast of peer to every other connected peer, and
\* one broadcast of all of them to peer
AnnounceOthers(peer) == connectedPeers \ {peer}

\* a variant of AnnounceMsgs to compare it with: the new peer is told nothing
AnnounceMsgsOneWay(peer) ==
    {[to |-> cp, peers |-> {peer}] : cp \in AnnounceOthers(peer)}

AnnounceMsgs(peer) ==
    {[to |-> cp, peers |-> {peer}] : cp \in AnnounceOthers(peer)}
    \cup (IF AnnounceOthers(peer) = {} THEN {}
          ELSE {[to |-> peer, peers |-> AnnounceOthers(peer)]})

\* the outcomes of announce: the synchronous broadcast can fail only when sent
AnnounceOutcomes(peer) ==
    IF AnnounceOthers(peer) = {} THEN {TRUE} ELSE BOOLEAN

\* the peers of a slice in EachBinRev order: shallowest bin first
RECURSIVE EachBinRev(_)
EachBinRev(peers) ==
    IF peers = {} THEN <<>>
    ELSE LET first == CHOOSE p \in peers :
                          \A q \in peers : PO(p) < PO(q) \/ (PO(p) = PO(q) /\ p <= q)
         IN  <<first>> \o EachBinRev(peers \ {first})

----------------------------------------------------------------------------
(* The notifier: Connected and Disconnected, called by the p2p service *)

\* a variant of Pick to compare it with: every peer is picked
AlwaysPick(p) == TRUE

\* Pick(peer)
Pick(p) ==
    IF bootnode THEN TRUE
    ELSE ~saturationFunc(PO(p), knownPeers, connectedPeers).oversaturated

PickCall(p) ==
    /\ out' = Out("Pick", p, Pick(p), {}, None)
    /\ UNCHANGED <<knownPeers, connectedPeers, depth, waitNext, manageC, peerSig,
                   config, node, addressBook, p2pPeers, now, mg, hist>>

\* a variant of ConnectedRejects to compare it with: no peer is rejected
NeverRejects(p) == FALSE

\* Connected rejects the peer of an oversaturated bin, unless a bootnode
ConnectedRejects(p) ==
    /\ ~bootnode
    /\ saturationFunc(PO(p), knownPeers, connectedPeers).oversaturated

\* a variant of connected to compare it with: the peer is not added to the
\* known peers
connectedUnknown(addr) ==
    /\ UNCHANGED knownPeers
    /\ connectedPeers' = Add(connectedPeers, addr)
    /\ waitNext' = Delete(waitNext, addr)
    /\ depth' = recalcDepth(connectedPeers')
    /\ peerSig' = notifyPeerSig(peerSig)

\* connected(ctx, addr) after its announce
connected(addr) ==
    /\ knownPeers' = Add(knownPeers, addr)
    /\ connectedPeers' = Add(connectedPeers, addr)
    /\ waitNext' = Delete(waitNext, addr)
    /\ depth' = recalcDepth(connectedPeers')
    /\ peerSig' = notifyPeerSig(peerSig)

\* Connected(ctx, peer): peer has dialed in
Connected(p, maxCalls) ==
    /\ p \notin p2pPeers
    /\ hist.calls < maxCalls
    /\ IF ConnectedRejects(p)
       THEN /\ out' = Out("Connected", p, "Oversaturated", {}, None)
            /\ hist' = [hist EXCEPT !.calls = @ + 1]
            /\ UNCHANGED <<knownPeers, connectedPeers, depth, waitNext, manageC,
                           peerSig, p2pPeers>>
       ELSE \E ok \in AnnounceOutcomes(p) :
              IF ok
              THEN /\ connected(p)
                   /\ manageC' = Signal(manageC)
                   /\ p2pPeers' = p2pPeers \cup {p}
                   /\ hist' = [hist EXCEPT !.calls = @ + 1,
                                           !.impure = @ \cup {p},
                                           !.disc = Delete(@, p),
                                           !.fail = Delete(@, p)]
                   /\ out' = Out("Connected", p, "ok", AnnounceMsgs(p), None)
              ELSE \* announce disconnects the peer and Connected returns the error
                   /\ out' = Out("Connected", p, "BroadcastError", AnnounceMsgs(p), None)
                   /\ hist' = [hist EXCEPT !.calls = @ + 1]
                   /\ UNCHANGED <<knownPeers, connectedPeers, depth, waitNext,
                                  manageC, peerSig, p2pPeers>>
    /\ UNCHANGED <<config, node, addressBook, now, mg>>

\* a variant of disconnected to compare it with: the retry map is left to
\* the manage loop
disconnectedKeepsRetry(p, cp, wn, h) ==
    [connectedPeers |-> Remove(cp, p),
     waitNext |-> wn,
     hist |-> [h EXCEPT !.disc = Put(@, p, now), !.impure = @ \cup {p},
                        !.fail = Delete(@, p)]]

\* the body of Disconnected(peer) but its wake-up of manage, with the slice,
\* retry map and history it starts from
disconnected(p, cp, wn, h) ==
    [connectedPeers |-> Remove(cp, p),
     waitNext |-> Put(wn, p, retryInfo(now + timeToRetry, 0)),
     hist |-> [h EXCEPT !.disc = Put(@, p, now), !.impure = @ \cup {p},
                        !.fail = Delete(@, p)]]

\* Disconnected(peer): the p2p service lost its connection to peer
Disconnected(p, maxCalls) ==
    /\ p \in p2pPeers
    /\ hist.calls < maxCalls
    /\ p2pPeers' = p2pPeers \ {p}
    /\ LET d == disconnected(p, connectedPeers, waitNext, hist)
       IN  /\ connectedPeers' = d.connectedPeers
           /\ waitNext' = d.waitNext
           /\ hist' = [d.hist EXCEPT !.calls = @ + 1]
    /\ depth' = recalcDepth(connectedPeers')
    /\ manageC' = Signal(manageC)
    /\ peerSig' = notifyPeerSig(peerSig)
    /\ out' = Out("Disconnected", p, "ok", {}, None)
    /\ UNCHANGED <<knownPeers, config, node, addressBook, now, mg>>

\* the p2p service loses its connection to a peer and has not yet said so
P2PDrop(p, maxCalls) ==
    /\ p \in p2pPeers
    /\ hist.calls < maxCalls
    /\ p2pPeers' = p2pPeers \ {p}
    /\ hist' = [hist EXCEPT !.calls = @ + 1]
    /\ out' = NoOut
    /\ UNCHANGED <<knownPeers, connectedPeers, depth, waitNext, manageC, peerSig,
                   config, node, addressBook, now, mg>>

----------------------------------------------------------------------------
(* The subscribers of peer changes *)

\* SubscribePeersChange(): a new one-slot channel, empty, joins k.peerSig
SubscribePeersChange(maxSubscribers) ==
    /\ Len(peerSig) < maxSubscribers
    /\ peerSig' = Append(peerSig, 0)
    /\ out' = Out("SubscribePeersChange", None, Len(peerSig'), {}, None)
    /\ UNCHANGED <<knownPeers, connectedPeers, depth, waitNext, manageC, config, node,
                   addressBook, p2pPeers, now, mg, hist>>

\* unsubscribe(): channel i leaves k.peerSig and is closed
Unsubscribe(i) ==
    /\ i \in DOMAIN peerSig
    /\ peerSig' = [n \in 1 .. Len(peerSig) - 1 |->
                     IF n < i THEN peerSig[n] ELSE peerSig[n + 1]]
    /\ out' = Out("unsubscribe", None, i, {}, None)
    /\ UNCHANGED <<knownPeers, connectedPeers, depth, waitNext, manageC, config, node,
                   addressBook, p2pPeers, now, mg, hist>>

\* subscriber i receives from its channel
ReceivePeerSig(i) ==
    /\ i \in DOMAIN peerSig
    /\ peerSig[i] = 1
    /\ peerSig' = [peerSig EXCEPT ![i] = 0]
    /\ out' = Out("receive", None, i, {}, None)
    /\ UNCHANGED <<knownPeers, connectedPeers, depth, waitNext, manageC, config, node,
                   addressBook, p2pPeers, now, mg, hist>>

----------------------------------------------------------------------------
(* AddPeers and the clock *)

\* AddPeers(ctx, addrs...)
addPeers(p) ==
    /\ knownPeers' = IF Exists(knownPeers, p) THEN knownPeers ELSE Add(knownPeers, p)
    /\ manageC' = Signal(manageC)

\* addOne: a peer is learned: its record is put in the address book and
\* AddPeers is called with it
AddOne(p) ==
    /\ p \notin addressBook \/ p \notin knownPeers
    /\ addressBook' = addressBook \cup {p}
    /\ addPeers(p)
    /\ hist' = IF p \notin addressBook
               THEN [hist EXCEPT !.fails = Delete(@, p)] ELSE hist
    /\ out' = NoOut
    /\ UNCHANGED <<connectedPeers, depth, waitNext, peerSig, config, node, p2pPeers,
                   now, mg>>

\* the clock advances, up to limit
Tick(limit) ==
    /\ now + manageTick <= limit
    /\ now' = now + manageTick
    /\ hist' = [hist EXCEPT !.disc = Recent(@, now'), !.fail = Recent(@, now')]
    /\ out' = NoOut
    /\ UNCHANGED <<knownPeers, connectedPeers, depth, waitNext, manageC, peerSig,
                   config, node, addressBook, p2pPeers, mg>>

----------------------------------------------------------------------------
(* ClosestPeer *)

\* a variant of closestLoop to compare it with: the skip list is not read
RECURSIVE closestLoopNoSkip(_, _, _, _, _)
closestLoopNoSkip(seq, addr, skipPeers, peers, acc) ==
    IF seq = <<>> THEN acc
    ELSE LET peer == Head(seq)
             rest == Tail(seq)
         IN  IF peer \notin peers
             THEN closestLoopNoSkip(rest, addr, skipPeers, peers,
                    [acc EXCEPT !.peersToDisconnect = @ \o <<peer>>])
             ELSE IF DistanceCmp(addr, acc.closest, peer) = 0 - 1
                  THEN closestLoopNoSkip(rest, addr, skipPeers, peers,
                         [acc EXCEPT !.closest = peer])
             ELSE closestLoopNoSkip(rest, addr, skipPeers, peers, acc)

\* the loop of ClosestPeer over the connected peers in EachBinRev order
RECURSIVE closestLoop(_, _, _, _, _)
closestLoop(seq, addr, skipPeers, peers, acc) ==
    IF seq = <<>> THEN acc
    ELSE LET peer == Head(seq)
             rest == Tail(seq)
         IN  IF peer \in skipPeers THEN closestLoop(rest, addr, skipPeers, peers, acc)
             ELSE IF peer \notin peers
                  THEN closestLoop(rest, addr, skipPeers, peers,
                         [acc EXCEPT !.peersToDisconnect = @ \o <<peer>>])
             ELSE IF DistanceCmp(addr, acc.closest, peer) = 0 - 1
                  THEN closestLoop(rest, addr, skipPeers, peers,
                         [acc EXCEPT !.closest = peer])
             ELSE closestLoop(rest, addr, skipPeers, peers, acc)

\* a variant of disconnectAll to compare it with: only the first of the
\* peers is disconnected
disconnectFirst(seq, st) ==
    IF seq = <<>> THEN st
    ELSE disconnected(Head(seq), st.connectedPeers, st.waitNext, st.hist)

\* the calls of Disconnected that end ClosestPeer, one per peer the p2p
\* service no longer holds
RECURSIVE disconnectAll(_, _)
disconnectAll(seq, st) ==
    IF seq = <<>> THEN st
    ELSE disconnectAll(Tail(seq),
                       disconnected(Head(seq), st.connectedPeers, st.waitNext, st.hist))

\* the chunk addresses ClosestPeer is asked about
Targets == {AddressAt(2, 1)}

\* ClosestPeer(addr, skipPeers...); it returns an address and an error
ClosestPeer(addr, skipPeers) ==
    IF Length(connectedPeers) = 0
    THEN /\ out' = Out("ClosestPeer", addr, <<None, "NotFound">>, {}, None)
         /\ UNCHANGED <<knownPeers, connectedPeers, depth, waitNext, manageC,
                        peerSig, config, node, addressBook, p2pPeers, now, mg, hist>>
    ELSE LET r == closestLoop(EachBinRev(connectedPeers), addr, skipPeers,
                              p2pPeers,
                              [closest |-> base, peersToDisconnect |-> <<>>])
             d == disconnectAll(r.peersToDisconnect,
                                [connectedPeers |-> connectedPeers,
                                 waitNext |-> waitNext, hist |-> hist])
             called == r.peersToDisconnect # <<>>
         IN  /\ connectedPeers' = d.connectedPeers
             /\ waitNext' = d.waitNext
             /\ hist' = d.hist
             /\ depth' = IF called THEN recalcDepth(connectedPeers') ELSE depth
             /\ manageC' = IF called THEN Signal(manageC) ELSE manageC
             /\ peerSig' = IF called THEN notifyPeerSig(peerSig) ELSE peerSig
             /\ out' = Out("ClosestPeer", addr,
                           IF r.closest = base THEN <<None, "WantSelf">>
                           ELSE <<r.closest, "nil">>,
                           {}, None)
             /\ UNCHANGED <<knownPeers, config, node, addressBook, p2pPeers, now, mg>>

----------------------------------------------------------------------------
(* connect, called by the manage loop *)

\* the retry hints a ConnectionBackoffError of the transport can carry
BackoffHints == {now + manageTick}

\* variants of pruned to compare it with: one attempt earlier, one later
prunedAtLeast(failedAttempts) == failedAttempts >= maxConnAttempts

prunedLate(failedAttempts) == failedAttempts > maxConnAttempts + 1

\* the peer is pruned once its failed attempts exceed maxConnAttempts
pruned(failedAttempts) == failedAttempts > maxConnAttempts

\* what p2p.Connect and announce can do with a dial of peer's underlay:
\*   ok           connected, and the announce went through
\*   announce     connected, the broadcast to peer failed: peer disconnected
\*   mismatch     connected, to another overlay: both disconnected
\*   already      ErrAlreadyConnected, to peer
\*   alreadyOther ErrAlreadyConnected, to another overlay
\*   fail         any other error
\*   backoff      a ConnectionBackoffError
ConnectOutcomes(peer) ==
    (IF peer \in p2pPeers THEN {"already"}
     ELSE {"ok", "mismatch", "fail", "backoff"}
          \cup (IF AnnounceOthers(peer) = {} THEN {} ELSE {"announce"}))
    \cup (IF p2pPeers \ {peer} = {} THEN {} ELSE {"alreadyOther"})

\* the error connect returns, "nil" if none
connectErr(res) ==
    CASE res \in {"ok", "already"} -> "nil"
      [] res \in {"mismatch", "alreadyOther"} -> "errOverlayMismatch"
      [] res = "announce" -> "BroadcastError"
      [] res = "fail" -> "ConnectError"
      [] res = "backoff" -> "ConnectionBackoffError"

\* connect(ctx, peer, ma, po): the retry map it leaves
connectWaitNext(peer, res, hint) ==
    IF res \notin {"fail", "backoff"} THEN waitNext
    ELSE LET retryTime == IF res = "backoff" THEN hint ELSE now + timeToRetry
             failedAttempts ==
                 IF res = "backoff" THEN 0
                 ELSE Get(waitNext, peer, retryInfo(0, 0)).failedAttempts + 1
         IN  IF pruned(failedAttempts)
             THEN Delete(waitNext, peer)
             ELSE Put(waitNext, peer, retryInfo(retryTime, failedAttempts))

\* a variant of connectAddressBook to compare it with: nothing is removed
keepAddressBook(peer, res) == addressBook

\* connect: the address book it leaves
connectAddressBook(peer, res) ==
    IF res = "fail"
       /\ pruned(Get(waitNext, peer, retryInfo(0, 0)).failedAttempts + 1)
    THEN addressBook \ {peer}
    ELSE addressBook

\* connect: the connections of the p2p service it leaves
connectP2P(peer, res) ==
    CASE res = "ok" -> p2pPeers \cup {peer}
      [] res \in {"announce", "mismatch"} -> p2pPeers \ {peer}
      [] OTHER -> p2pPeers

\* the history after a connect attempt
connectHist(peer, res) ==
    CASE res = "fail" ->
           [hist EXCEPT !.fail = Put(@, peer, now),
                        !.fails = IF peer \in hist.impure THEN @
                                  ELSE Put(@, peer, Get(@, peer, 0) + 1)]
      [] res \in {"announce", "mismatch", "alreadyOther"} ->
           [hist EXCEPT !.fail = Put(@, peer, now), !.impure = @ \cup {peer}]
      [] res = "backoff" ->
           [hist EXCEPT !.fail = Delete(@, peer), !.impure = @ \cup {peer}]
      [] OTHER ->
           [hist EXCEPT !.fail = Delete(@, peer), !.impure = @ \cup {peer},
                        !.disc = Delete(@, peer)]

\* one iteration of a pass of manage from its call of connect on: connect,
\* and what the pass does with its error or its success
manageConnect(peer, res, hint) ==
    LET err == connectErr(res)
        wn == connectWaitNext(peer, res, hint)
    IN  /\ p2pPeers' = connectP2P(peer, res)
        /\ hist' = connectHist(peer, res)
        /\ out' = Out("connect", peer, err,
                      IF res \in {"ok", "announce"} THEN AnnounceMsgs(peer) ELSE {},
                      peer)
        /\ IF err # "nil"
           THEN /\ knownPeers' = IF err = "errOverlayMismatch"
                                 THEN Remove(knownPeers, peer) ELSE knownPeers
                /\ addressBook' = IF err = "errOverlayMismatch"
                                  THEN addressBook \ {peer}
                                  ELSE connectAddressBook(peer, res)
                /\ waitNext' = IF Has(wn, peer) THEN wn
                               ELSE Put(wn, peer, retryInfo(now + timeToRetry, 0))
                /\ UNCHANGED <<connectedPeers, depth, peerSig>>
           ELSE /\ waitNext' = Put(wn, peer, retryInfo(now + shortRetry, 0))
                /\ connectedPeers' = Add(connectedPeers, peer)
                /\ depth' = recalcDepth(connectedPeers')
                /\ peerSig' = notifyPeerSig(peerSig)
                /\ UNCHANGED <<knownPeers, addressBook>>

----------------------------------------------------------------------------
(* The manage loop *)

\* a variant of SuffixCount to compare it with: one pseudo address per bin
OneSuffix == IF bitSuffixLength > 0 THEN 1 ELSE 0

\* the number of pseudo addresses of a bin; none when balancing is off
SuffixCount == IF bitSuffixLength > 0 THEN Pow2(bitSuffixLength) ELSE 0

\* a variant of suffixBit to compare it with: the suffix is not kept in a
\* byte
suffixBitOfInt(j, pos) == (j \div Pow2(pos)) % 2

\* hasBit(bitSufixes[j], uint8(pos)): bitSufixes[j] is uint8(j), and the
\* mask 1 << pos of a byte is 0 from pos 8 on
suffixBit(j, pos) ==
    IF pos >= 8 THEN 0 ELSE ((j % 256) \div Pow2(pos)) % 2

\* generateCommonBinPrefixes: the pseudo address j of bin i
commonBinPrefixes(i, j) ==
    LET bitOf(l) ==
            IF l < i THEN Bit(base, l)
            ELSE IF l = i THEN 1 - Bit(base, i)
            ELSE IF l < i + bitSuffixLength + 1
                 THEN suffixBit(j, i + bitSuffixLength - l)
            ELSE 0
        RECURSIVE Sum(_)
        Sum(l) == IF l = AddrBits THEN 0
                  ELSE bitOf(l) * Pow2(AddrBits - 1 - l) + Sum(l + 1)
    IN  Sum(0)

\* closestPeer(peers, addr, spf): None stands for ErrNotFound
RECURSIVE closestPeerLoop(_, _, _, _)
closestPeerLoop(seq, addr, sanctioned, closest) ==
    IF seq = <<>> THEN closest
    ELSE LET peer == Head(seq)
         IN  IF peer \in sanctioned
             THEN closestPeerLoop(Tail(seq), addr, sanctioned, closest)
             ELSE IF closest = None
             THEN closestPeerLoop(Tail(seq), addr, sanctioned, peer)
             ELSE IF DistanceCmp(addr, closest, peer) = 0 - 1
             THEN closestPeerLoop(Tail(seq), addr, sanctioned, peer)
             ELSE closestPeerLoop(Tail(seq), addr, sanctioned, closest)

closestPeer(peers, addr, sanctioned) ==
    closestPeerLoop(EachBinRev(peers), addr, sanctioned, None)

\* the balanced pass from position pos = i * SuffixCount + j up to its next
\* connect, its missing address book entry, or its end
RECURSIVE BalancedScan(_)
BalancedScan(pos) ==
    IF SuffixCount = 0 \/ pos >= MaxBins * SuffixCount THEN [kind |-> "end"]
    ELSE LET i == pos \div SuffixCount
             j == pos % SuffixCount
             pseudoAddr == commonBinPrefixes(i, j)
             nextBin == (i + 1) * SuffixCount
             closestConnectedPeer == closestPeer(connectedPeers, pseudoAddr, {})
             closestKnownPeer ==
                 closestPeer(knownPeers, pseudoAddr,
                             {p \in knownPeers : Sanctioned(p)})
         IN  IF closestConnectedPeer = None THEN BalancedScan(nextBin)
             ELSE IF ExtendedProximity(closestConnectedPeer, pseudoAddr)
                       >= i + bitSuffixLength + 1
             THEN BalancedScan(pos + 1)
             ELSE IF closestKnownPeer = None THEN BalancedScan(nextBin)
             ELSE IF Exists(connectedPeers, closestKnownPeer)
             THEN BalancedScan(pos + 1)
             ELSE IF ExtendedProximity(closestKnownPeer, pseudoAddr)
                       < i + bitSuffixLength + 1
             THEN BalancedScan(pos + 1)
             ELSE IF closestKnownPeer \notin addressBook
             THEN [kind |-> "stale", peer |-> closestKnownPeer, next |-> pos + 1]
             ELSE [kind |-> "connect", peer |-> closestKnownPeer, next |-> pos + 1]

\* a variant of BinFillScan to compare it with: the address book is not
\* asked
RECURSIVE BinFillScanNoBook(_)
BinFillScanNoBook(todo) ==
    IF todo = {} THEN [kind |-> "end"]
    ELSE LET peer == Head(EachBinRev(todo))
             rest == todo \ {peer}
         IN  IF Exists(connectedPeers, peer) THEN BinFillScanNoBook(rest)
             ELSE IF Sanctioned(peer) THEN BinFillScanNoBook(rest)
             ELSE IF saturationFunc(PO(peer), knownPeers, connectedPeers).saturated
             THEN BinFillScanNoBook({q \in rest : PO(q) # PO(peer)})
             ELSE [kind |-> "connect", peer |-> peer, todo |-> rest]

\* the bin-filling pass over the known peers it has not visited yet, up to
\* its next connect, its missing address book entry, or its end
RECURSIVE BinFillScan(_)
BinFillScan(todo) ==
    IF todo = {} THEN [kind |-> "end"]
    ELSE LET peer == Head(EachBinRev(todo))
             rest == todo \ {peer}
         IN  IF Exists(connectedPeers, peer) THEN BinFillScan(rest)
             ELSE IF Sanctioned(peer) THEN BinFillScan(rest)
             ELSE IF saturationFunc(PO(peer), knownPeers, connectedPeers).saturated
             THEN BinFillScan({q \in rest : PO(q) # PO(peer)})
             ELSE IF peer \notin addressBook
             THEN [kind |-> "stale", peer |-> peer, todo |-> rest]
             ELSE [kind |-> "connect", peer |-> peer, todo |-> rest]

\* the 30 s timer of manage fires
ManageTimer ==
    /\ mg.pc = "idle"
    /\ manageC = 0
    /\ manageC' = Signal(manageC)
    /\ out' = NoOut
    /\ UNCHANGED <<knownPeers, connectedPeers, depth, waitNext, peerSig, config, node,
                   addressBook, p2pPeers, now, mg, hist>>

\* manage receives from manageC
ManageWake ==
    /\ mg.pc = "idle"
    /\ manageC = 1
    /\ manageC' = 0
    /\ mg' = IF standalone THEN mg ELSE [MgIdle EXCEPT !.pc = "balanced"]
    /\ out' = NoOut
    /\ hist' = [hist EXCEPT !.dials = EmptyMap, !.joined = {}]
    /\ UNCHANGED <<knownPeers, connectedPeers, depth, waitNext, peerSig, config, node,
                   addressBook, p2pPeers, now>>

\* the bin-filling pass begins, over the known peers kp
BinFillStart(kp) == [MgIdle EXCEPT !.pc = "binfill", !.todo = kp]

\* the bin-filling pass is over: connectBootnodes if no peer is connected
AfterBinFill(cp) ==
    IF Length(cp) = 0 THEN [MgIdle EXCEPT !.pc = "boot", !.bidx = 1]
    ELSE MgIdle

\* the balanced pass: its iterations up to and with the next one that
\* connects or finds no address book entry, or up to its end
ManageBalanced ==
    /\ mg.pc = "balanced"
    /\ LET r == BalancedScan(mg.pos)
       IN  CASE r.kind = "end" ->
                  /\ mg' = BinFillStart(knownPeers)
                  /\ out' = NoOut
                  /\ UNCHANGED <<knownPeers, connectedPeers, depth, waitNext,
                                 peerSig, addressBook, p2pPeers, hist>>
             [] r.kind = "stale" ->
                  /\ knownPeers' = Remove(knownPeers, r.peer)
                  /\ mg' = BinFillStart(knownPeers')
                  /\ out' = Out("stale", r.peer, "errMissingAddressBookEntry", {}, None)
                  /\ UNCHANGED <<connectedPeers, depth, waitNext, peerSig,
                                 addressBook, p2pPeers, hist>>
             [] r.kind = "connect" ->
                  /\ \E res \in ConnectOutcomes(r.peer) :
                       \E hint \in (IF res = "backoff" THEN BackoffHints ELSE {None}) :
                         manageConnect(r.peer, res, hint)
                  /\ mg' = [mg EXCEPT !.pos = r.next]
    /\ UNCHANGED <<manageC, config, node, now>>

\* the bin-filling pass, likewise
ManageBinFill ==
    /\ mg.pc = "binfill"
    /\ LET r == BinFillScan(mg.todo \cap knownPeers)
       IN  CASE r.kind = "end" ->
                  /\ mg' = AfterBinFill(connectedPeers)
                  /\ out' = NoOut
                  /\ UNCHANGED <<knownPeers, connectedPeers, depth, waitNext,
                                 peerSig, addressBook, p2pPeers, hist>>
             [] r.kind = "stale" ->
                  /\ knownPeers' = Remove(knownPeers, r.peer)
                  /\ mg' = AfterBinFill(connectedPeers)
                  /\ out' = Out("stale", r.peer, "errMissingAddressBookEntry", {}, None)
                  /\ UNCHANGED <<connectedPeers, depth, waitNext, peerSig,
                                 addressBook, p2pPeers, hist>>
             [] r.kind = "connect" ->
                  /\ \E res \in ConnectOutcomes(r.peer) :
                       \E hint \in (IF res = "backoff" THEN BackoffHints ELSE {None}) :
                         manageConnect(r.peer, res, hint)
                  /\ mg' = [mg EXCEPT !.todo = r.todo]
    /\ UNCHANGED <<manageC, config, node, now>>

\* a variant of bootnodesDone to compare it with: the attempts are counted
\* against the total only
bootnodesDoneByTotal(m) ==
    \/ m.bidx > Len(bootnodes)
    \/ m.attempts >= maxBootnodeAttempts * Len(bootnodes)
    \/ m.connected >= maxBootnodes

\* connectBootnodes dials no further address: the list is at its end, or
\* the loop returns, or the callback of Discover stops
bootnodesDone(m) ==
    \/ m.bidx > Len(bootnodes)
    \/ m.attempts >= maxBootnodeAttempts * Len(bootnodes)
    \/ m.connected >= maxBootnodes
    \/ m.attempts >= maxBootnodeAttempts

\* the history of a round of connectBootnodes after a dial of addr
bootHist(h, addr, joins) ==
    LET dials == IF mg.bidx = 1 THEN EmptyMap ELSE h.dials
        joined == IF mg.bidx = 1 THEN {} ELSE h.joined
    IN  [h EXCEPT !.dials = Put(dials, addr, Get(dials, addr, 0) + 1),
                  !.joined = IF joins THEN joined \cup {mg.bidx} ELSE joined]

\* connectBootnodes: the next bootnode, each underlay being one address
ManageBootnodes ==
    /\ mg.pc = "boot"
    /\ IF bootnodesDone(mg)
       THEN /\ mg' = MgIdle
            /\ out' = NoOut
            /\ hist' = [hist EXCEPT !.dials = EmptyMap, !.joined = {}]
            /\ UNCHANGED <<knownPeers, connectedPeers, depth, waitNext, peerSig,
                           p2pPeers>>
       ELSE LET addr == bootnodes[mg.bidx]
                next == [mg EXCEPT !.bidx = @ + 1, !.attempts = @ + 1]
            IN  IF addr \in p2pPeers
                THEN \* ErrAlreadyConnected: on to the next bootnode
                     /\ mg' = next
                     /\ out' = Out("bootnode", addr, "ErrAlreadyConnected", {}, addr)
                     /\ hist' = bootHist(hist, addr, FALSE)
                     /\ UNCHANGED <<knownPeers, connectedPeers, depth, waitNext,
                                    peerSig, p2pPeers>>
                ELSE \E res \in {"ok", "fail"} \cup
                                (IF AnnounceOthers(addr) = {} THEN {} ELSE {"announce"}) :
                       IF res = "ok"
                       THEN /\ connected(addr)
                            /\ p2pPeers' = p2pPeers \cup {addr}
                            /\ hist' = [bootHist(hist, addr, TRUE) EXCEPT
                                          !.impure = @ \cup {addr},
                                          !.disc = Delete(@, addr),
                                          !.fail = Delete(@, addr)]
                            /\ mg' = [next EXCEPT !.connected = @ + 1]
                            /\ out' = Out("bootnode", addr, "nil", AnnounceMsgs(addr), addr)
                       ELSE \* the error ends connectBootnodes
                            /\ mg' = MgIdle
                            /\ out' = Out("bootnode", addr, connectErr(res),
                                          IF res = "announce" THEN AnnounceMsgs(addr)
                                          ELSE {}, addr)
                            /\ hist' = bootHist(hist, addr, FALSE)
                            /\ UNCHANGED <<knownPeers, connectedPeers, depth,
                                           waitNext, peerSig, p2pPeers>>
    /\ UNCHANGED <<manageC, config, node, addressBook, now>>

----------------------------------------------------------------------------
(* The node at work: two peers, one of them the bootnode, and the clock *)

\* a node made with options o that has learned of peers and done nothing else
Start(o, peers) ==
    /\ Kad([New(o) EXCEPT !.knownPeers = peers,
                          !.manageC = IF peers = {} THEN 0 ELSE 1])
    /\ addressBook = peers
    /\ p2pPeers = {}
    /\ now = 0
    /\ mg = MgIdle
    /\ out = NoOut
    /\ hist = [NoHist EXCEPT !.configured = o.BitSuffixLength]
    /\ node = NoNode

Init == Start(Options(FALSE, FALSE, 0, <<P0>>), {})

Next ==
    \/ \E p \in Peers : Connected(p, MaxCalls)
    \/ \E p \in Peers : Disconnected(p, MaxCalls)
    \/ \E p \in Peers : AddOne(p)
    \/ Tick(MaxTime)
    \/ ManageTimer
    \/ ManageWake
    \/ ManageBalanced
    \/ ManageBinFill
    \/ ManageBootnodes

Spec == Init /\ [][Next]_vars

----------------------------------------------------------------------------
(* The topology: four peers of four bins, the clock standing still *)

InitTopology == Start(Options(FALSE, FALSE, 0, <<P0>>), TopologyPeers)

NextTopology ==
    \/ \E p \in TopologyPeers : Connected(p, MaxTopologyCalls)
    \/ \E p \in TopologyPeers : Disconnected(p, MaxTopologyCalls)
    \/ \E p \in TopologyPeers : P2PDrop(p, MaxTopologyCalls)
    \/ \E addr \in Targets : ClosestPeer(addr, {})
    \/ ManageTimer
    \/ ManageWake
    \/ ManageBalanced
    \/ ManageBinFill
    \/ ManageBootnodes

SpecTopology == InitTopology /\ [][NextTopology]_vars

----------------------------------------------------------------------------
(* Pruning: one peer that is dialed again and again, no bootnode *)

InitPrune == Start(Options(FALSE, FALSE, 0 - 1, <<>>), {})

NextPrune ==
    \/ \E p \in PrunePeers : AddOne(p)
    \/ Tick(LongTime)
    \/ ManageTimer
    \/ ManageWake
    \/ ManageBalanced
    \/ ManageBinFill
    \/ ManageBootnodes

SpecPrune == InitPrune /\ [][NextPrune]_vars

----------------------------------------------------------------------------
(* recalcDepth on every population of eight peers, two of each bin *)

DepthPeers == {P0, AddressAt(0, 2), P1, AddressAt(1, 1), P2, AddressAt(2, 1),
               P3, AddressAt(3, 1)}

\* a node made with options o that holds the connected peers cp and knows kp
Populated(o, cp, kp) ==
    /\ Kad([New(o) EXCEPT !.connectedPeers = cp, !.knownPeers = kp,
                          !.depth = recalcDepth(cp)])
    /\ addressBook = kp
    /\ p2pPeers = cp
    /\ now = 0
    /\ mg = MgIdle
    /\ out = NoOut
    /\ hist = [NoHist EXCEPT !.configured = o.BitSuffixLength]
    /\ node = NoNode

InitDepth ==
    \E cp \in SUBSET DepthPeers :
        Populated(Options(FALSE, FALSE, 0, <<>>), cp, cp)

\* k.depth = recalcDepth(k.connectedPeers)
RecalcDepthCall ==
    /\ out.op # "recalcDepth"
    /\ depth' = recalcDepth(connectedPeers)
    /\ out' = Out("recalcDepth", None, depth', {}, None)
    /\ UNCHANGED <<knownPeers, connectedPeers, waitNext, manageC, peerSig, config, node,
                   addressBook, p2pPeers, now, mg, hist>>

NextDepth == RecalcDepthCall

SpecDepth == InitDepth /\ [][NextDepth]_vars

----------------------------------------------------------------------------
(* Saturation: a crowd in bin 0, deeper peers known, a latecomer dialing in *)

CrowdSizes == {CrowdSize - 2, CrowdSize - 1}

SatDialers == {Latecomer, P1}

InitSat ==
    \E n \in CrowdSizes, ds \in SUBSET Deep, bm \in BOOLEAN :
        Populated(Options(FALSE, bm, 0, <<>>), CrowdFirst(n) \cup ds,
                  CrowdFirst(n) \cup Deep)

NextSat ==
    \/ \E p \in SatDialers : PickCall(p)
    \/ \E p \in SatDialers : Connected(p, MaxCalls)
    \/ \E p \in SatDialers : Disconnected(p, MaxCalls)

SpecSat == InitSat /\ [][NextSat]_vars

----------------------------------------------------------------------------
(* binSaturated on populations whose known and connected peers differ *)

BinSatCrowds == {saturationPeers - 1, saturationPeers,
                 overSaturationPeers - 1, overSaturationPeers}

InitBinSat ==
    \E n \in BinSatCrowds, ds \in SUBSET Deep, ks \in SUBSET Deep :
        Populated(Options(FALSE, FALSE, 0, <<>>), CrowdFirst(n) \cup ds,
                  CrowdFirst(n) \cup ds \cup ks)

\* saturated, oversaturated := k.saturationFunc(bin, k.knownPeers, k.connectedPeers)
BinSaturatedCall(bin) ==
    /\ out' = Out("binSaturated", bin,
                  saturationFunc(bin, knownPeers, connectedPeers), {}, None)
    /\ UNCHANGED <<knownPeers, connectedPeers, depth, waitNext, manageC, peerSig,
                   config, node, addressBook, p2pPeers, now, mg, hist>>

NextBinSat == \E bin \in Bins : BinSaturatedCall(bin)

SpecBinSat == InitBinSat /\ [][NextBinSat]_vars

----------------------------------------------------------------------------
(* ClosestPeer on every population of four peers, the p2p service losing
   some of them *)

ClosestPeers == {P0, P1, P2, P3}

\* the addresses asked about: the node's own, a peer's, and others of bins
\* 0, 2 and 3
ClosestTargets == {base, P1, AddressAt(0, 3), AddressAt(2, 1), AddressAt(3, 1)}

SkipLists == {skip \in SUBSET ClosestPeers : Cardinality(skip) <= 1}

InitClosest ==
    \E cp \in SUBSET ClosestPeers :
        Populated(Options(FALSE, FALSE, 0, <<>>), cp, cp)

NextClosest ==
    \/ \E addr \in ClosestTargets, skip \in SkipLists : ClosestPeer(addr, skip)
    \/ \E p \in ClosestPeers : P2PDrop(p, MaxCalls)

SpecClosest == InitClosest /\ [][NextClosest]_vars

----------------------------------------------------------------------------
(* Subscribers that come, receive and go while the peers change *)

InitSubscribe == Start(Options(FALSE, FALSE, 0, <<P0>>), Peers)

NextSubscribe ==
    \/ SubscribePeersChange(MaxSubscribers)
    \/ \E i \in 1 .. MaxSubscribers : Unsubscribe(i)
    \/ \E i \in 1 .. MaxSubscribers : ReceivePeerSig(i)
    \/ \E p \in Peers : Connected(p, MaxCalls)
    \/ \E p \in Peers : Disconnected(p, MaxCalls)
    \/ \E p \in Peers : P2PDrop(p, MaxCalls)
    \/ \E addr \in Targets : ClosestPeer(addr, {})
    \/ ManageTimer
    \/ ManageWake
    \/ ManageBalanced
    \/ ManageBinFill
    \/ ManageBootnodes

SpecSubscribe == InitSubscribe /\ [][NextSubscribe]_vars

----------------------------------------------------------------------------
(* Bootnodes: a node that knows no peer, with four bootnodes, or with one
   whose underlay resolves to four addresses and a second *)

BootnodeLists == {<<P0, P1, P2, P3>>, <<P0, P0, P0, P0, P1>>}

BootPeers == {P0, P1, P2, P3}

InitBoot == \E bn \in BootnodeLists : Start(Options(FALSE, FALSE, 0, bn), {})

NextBoot ==
    \/ \E p \in BootPeers : Disconnected(p, MaxTopologyCalls)
    \/ ManageTimer
    \/ ManageWake
    \/ ManageBalanced
    \/ ManageBinFill
    \/ ManageBootnodes

SpecBoot == InitBoot /\ [][NextBoot]_vars

----------------------------------------------------------------------------
(* Balancing: the manage loop left to itself, every dial succeeding, with
   no peer known or with a peer known in every quarter of every bin and a
   crowd besides in one quarter of bin 0 *)

BalanceCrowd == CrowdFirst(saturationPeers)

BalanceStarters == CrowdFirst(2) \cup {AddressAt(1, 1), AddressAt(2, 1)}

InitBalance ==
    \E bsl \in {1, 2} :
        \/ Populated(Options(FALSE, FALSE, bsl, <<>>), {}, {})
        \/ \E cp \in SUBSET BalanceStarters :
              Populated(Options(FALSE, FALSE, bsl, <<>>), cp,
                        BalancePeers \cup BalanceCrowd)

\* the peers are connectable: a connect of the manage loop succeeds
Connectable == out'.op = "connect" => out'.ret = "nil"

NextBalance ==
    \/ ManageTimer
    \/ ManageWake
    \/ ManageBalanced /\ Connectable
    \/ ManageBinFill /\ Connectable
    \/ ManageBootnodes

\* manage is a goroutine of its own: its timer fires every 30 s, it receives
\* from manageC when a signal waits there, and a pass it has begun, a finite
\* loop over bins and peers, comes to its end
SpecBalance ==
    /\ InitBalance
    /\ [][NextBalance]_vars
    /\ WF_vars(ManageTimer)
    /\ WF_vars(ManageWake)
    /\ []<>(mg.pc = "idle")

----------------------------------------------------------------------------
(* The suffix length: nodes configured with -1, 0 and 1 *)

SuffixLengths == {0 - 1, 0, 1}

InitSuffix ==
    \E bsl \in SuffixLengths : Start(Options(FALSE, FALSE, bsl, <<P0>>), Peers)

NextSuffix ==
    \/ \E p \in Peers : Connected(p, MaxCalls)
    \/ \E p \in Peers : Disconnected(p, MaxCalls)
    \/ ManageTimer
    \/ ManageWake
    \/ ManageBalanced
    \/ ManageBinFill
    \/ ManageBootnodes

SpecSuffix == InitSuffix /\ [][NextSuffix]_vars

----------------------------------------------------------------------------
(* Hive: BroadcastPeers sends a list of peers in batches *)

maxBatchSize == 30

\* what a call of BroadcastPeers was given, and what it did: the messages
\* written, the streams opened, the error returned
HiveOut(addressee, peers, fail, broken, ret, sent, streams) ==
    [op |-> "BroadcastPeers", peer |-> addressee, ret |-> ret, sent |-> sent,
     dial |-> None, peers |-> peers, fail |-> fail, broken |-> broken,
     streams |-> streams]

\* the streamer: the send that fails, if any, and how
NoFailure == [at |-> 0, err |-> "nil"]
NewStreamFails(at) == [at |-> at, err |-> "new stream"]
WriteFails(at) == [at |-> at, err |-> "write Peers message"]

\* the range loop of sendPeers over peers[i..]: the records appended to the
\* request, or the error of addressBook.Get
RECURSIVE sendPeersLoop(_, _, _, _)
sendPeersLoop(peers, i, broken, request) ==
    IF i > Len(peers) THEN [err |-> "nil", request |-> request]
    ELSE IF peers[i] = broken THEN [err |-> "addressbook", request |-> request]
    ELSE IF peers[i] \notin addressBook
         THEN sendPeersLoop(peers, i + 1, broken, request)
    ELSE sendPeersLoop(peers, i + 1, broken, Append(request, peers[i]))

\* sendPeers(ctx, peer, peers): failure is the error of the streamer in
\* this send, broken the peer whose address book entry cannot be read
sendPeers(peers, failure, broken) ==
    IF failure = "new stream" THEN [err |-> failure, streams |-> 0, sent |-> <<>>]
    ELSE LET r == sendPeersLoop(peers, 1, broken, <<>>)
         IN  IF r.err # "nil" THEN [err |-> r.err, streams |-> 1, sent |-> <<>>]
             ELSE IF failure # "nil"
                  THEN [err |-> failure, streams |-> 1, sent |-> <<>>]
             ELSE [err |-> "nil", streams |-> 1, sent |-> <<r.request>>]

\* a variant of broadcastLoop to compare it with: a failed send is passed over
RECURSIVE broadcastLoopOn(_, _, _, _, _, _, _)
broadcastLoopOn(max, peers, sends, fail, broken, sent, streams) ==
    IF Len(peers) = 0 THEN [err |-> "nil", sent |-> sent, streams |-> streams]
    ELSE LET max2 == IF max > Len(peers) THEN Len(peers) ELSE max
             r == sendPeers(SubSeq(peers, 1, max2),
                            IF fail.at = sends + 1 THEN fail.err ELSE "nil",
                            broken)
         IN  broadcastLoopOn(max2, SubSeq(peers, max2 + 1, Len(peers)),
                             sends + 1, fail, broken, sent \o r.sent,
                             streams + r.streams)

\* the loop of BroadcastPeers, sends of it done
RECURSIVE broadcastLoop(_, _, _, _, _, _, _)
broadcastLoop(max, peers, sends, fail, broken, sent, streams) ==
    IF Len(peers) = 0 THEN [err |-> "nil", sent |-> sent, streams |-> streams]
    ELSE LET max2 == IF max > Len(peers) THEN Len(peers) ELSE max
             r == sendPeers(SubSeq(peers, 1, max2),
                            IF fail.at = sends + 1 THEN fail.err ELSE "nil",
                            broken)
         IN  IF r.err # "nil"
             THEN [err |-> r.err, sent |-> sent \o r.sent,
                   streams |-> streams + r.streams]
             ELSE broadcastLoop(max2, SubSeq(peers, max2 + 1, Len(peers)),
                                sends + 1, fail, broken, sent \o r.sent,
                                streams + r.streams)

\* s.BroadcastPeers(ctx, addressee, peers...)
BroadcastPeers(addressee, peers, fail, broken) ==
    /\ out.op # "BroadcastPeers"
    /\ LET r == broadcastLoop(maxBatchSize, peers, 0, fail, broken, <<>>, 0)
       IN  out' = HiveOut(addressee, peers, fail, broken, r.err, r.sent,
                          r.streams)
    /\ UNCHANGED <<knownPeers, connectedPeers, depth, waitNext, manageC,
                   peerSig, config, node, addressBook, p2pPeers, now, mg, hist>>

\* the peers of a broadcast are numbered from 1
HivePeers == 1 .. MaxBroadcast

\* lists of every length: ascending, descending, and one with repetitions
PeerLists ==
    {[i \in 1 .. n |-> i] : n \in 0 .. MaxBroadcast}
    \cup {[i \in 1 .. n |-> n + 1 - i] : n \in 0 .. MaxBroadcast}
    \cup {[i \in 1 .. n |-> ((i * 7) % 11) + 1] : n \in 0 .. MaxBroadcast}

\* address books: empty, full, the even peers, all but the multiples of 3
HiveBooks ==
    {{}, HivePeers, {p \in HivePeers : p % 2 = 0}, {p \in HivePeers : p % 3 # 0}}

HiveFailures ==
    {NoFailure} \cup {NewStreamFails(at) : at \in 1 .. 3}
                \cup {WriteFails(at) : at \in 1 .. 3}

\* the entry that cannot be read: none, one of the first batch, one of the
\* second
BrokenEntries == {None, 4, maxBatchSize + 5}

InitHive ==
    /\ Kad(New(Options(FALSE, FALSE, 0, <<>>)))
    /\ addressBook \in HiveBooks
    /\ p2pPeers = {}
    /\ now = 0
    /\ mg = MgIdle
    /\ out = NoOut
    /\ hist = NoHist
    /\ node = NoNode

NextHive ==
    \E peers \in PeerLists, fail \in HiveFailures, broken \in BrokenEntries :
        BroadcastPeers(P0, peers, fail, broken)

SpecHive == InitHive /\ [][NextHive]_vars

----------------------------------------------------------------------------
(* Netstore: the local store backed by retrieval from the network *)

ChunkAddrs == {1, 2}

\* the targets of a request: none, or one of two
NoTargets == None
TargetSets == {NoTargets, 1, 2}

\* netstore.New(s, rcb, r, logger): chunks is the wrapped Storer, the mode
\* each chunk was put with; network the chunks retrieval can fetch;
\* recovered the calls of the recovery callback
NetstoreNew(rcb, network) ==
    [service |-> "netstore", chunks |-> EmptyMap, network |-> network,
     recoveryCallback |-> rcb, recovered |-> <<>>, retrievals |-> 0,
     gets |-> 0]

\* what a request was given and what it got
GetOut(addr, targets, failure, r, status) ==
    [op |-> "Get", peer |-> None, ret |-> r.err, sent |-> {}, dial |-> None,
     addr |-> addr, targets |-> targets, failure |-> failure, ch |-> r.ch,
     status |-> status]

GetResult(n, ch, err) == [node |-> n, ch |-> ch, err |-> err]

\* a variant of storerPut to compare it with: nothing is stored
storerPutNothing(n, ch, mode) == n

\* s.Storer.Put(ctx, mode, ch)
storerPut(n, ch, mode) == [n EXCEPT !.chunks = Put(@, ch, mode)]

\* a variant of recovery to compare it with: targets are not asked for
recoveryWithoutTargets(n, addr, targets) ==
    IF ~n.recoveryCallback
    THEN GetResult(n, None, "NotFound")
    ELSE GetResult([n EXCEPT !.recovered = Append(@, <<addr, targets>>)],
                   None, "RecoveryAttempt")

\* store.Get after RetrieveChunk failed
recovery(n, addr, targets) ==
    IF targets = NoTargets \/ ~n.recoveryCallback
    THEN GetResult(n, None, "NotFound")
    ELSE GetResult([n EXCEPT !.recovered = Append(@, <<addr, targets>>)],
                   None, "RecoveryAttempt")

\* store.Get(ctx, mode, addr); failure is the call of the Storer that
\* fails in this request, if any
storeGet(n, addr, targets, failure) ==
    IF failure = "get" THEN GetResult(n, None, "netstore get")
    ELSE IF Has(n.chunks, addr) THEN GetResult(n, addr, "nil")
    ELSE LET n1 == [n EXCEPT !.retrievals = @ + 1]
         IN  IF addr \notin n.network THEN recovery(n1, addr, targets)
             ELSE IF failure = "put"
                  THEN GetResult(n1, None, "netstore retrieve put")
             ELSE GetResult(storerPut(n1, addr, "Request"), addr, "nil")

\* the response of chunkGetHandler to what Get returned
GetStatus(err) ==
    CASE err = "nil" -> 200
      [] err = "NotFound" -> 404
      [] err = "RecoveryAttempt" -> 202
      [] OTHER -> 500

\* s.chunkGetHandler(w, r): a request for addr with the targets of its query
chunkGetHandler(addr, targets, failure) ==
    /\ node.gets < MaxGets
    /\ LET r == storeGet(node, addr, targets, failure)
       IN  /\ node' = [r.node EXCEPT !.gets = @ + 1]
           /\ out' = GetOut(addr, targets, failure, r, GetStatus(r.err))
    /\ UNCHANGED <<knownPeers, connectedPeers, depth, waitNext, manageC,
                   peerSig, config, addressBook, p2pPeers, now, mg, hist>>

\* a chunk uploaded to the local store
UploadChunk(addr) ==
    /\ ~Has(node.chunks, addr)
    /\ node' = storerPut(node, addr, "Upload")
    /\ UNCHANGED <<knownPeers, connectedPeers, depth, waitNext, manageC,
                   peerSig, config, addressBook, p2pPeers, now, mg, out, hist>>

\* the peers that hold a chunk come and go
NetworkGains(addr) ==
    /\ addr \notin node.network
    /\ node' = [node EXCEPT !.network = @ \cup {addr}]
    /\ UNCHANGED <<knownPeers, connectedPeers, depth, waitNext, manageC,
                   peerSig, config, addressBook, p2pPeers, now, mg, out, hist>>

NetworkLoses(addr) ==
    /\ addr \in node.network
    /\ node' = [node EXCEPT !.network = @ \ {addr}]
    /\ UNCHANGED <<knownPeers, connectedPeers, depth, waitNext, manageC,
                   peerSig, config, addressBook, p2pPeers, now, mg, out, hist>>

InitNetstore ==
    /\ Kad(New(Options(FALSE, FALSE, 0, <<>>)))
    /\ addressBook = {}
    /\ p2pPeers = {}
    /\ now = 0
    /\ mg = MgIdle
    /\ out = NoOut
    /\ hist = NoHist
    /\ \E rcb \in BOOLEAN, network \in SUBSET ChunkAddrs :
           node = NetstoreNew(rcb, network)

NextNetstore ==
    \/ \E addr \in ChunkAddrs, targets \in TargetSets,
          failure \in {"nil", "get", "put"} :
           chunkGetHandler(addr, targets, failure)
    \/ \E addr \in ChunkAddrs : UploadChunk(addr)
    \/ \E addr \in ChunkAddrs : NetworkGains(addr)
    \/ \E addr \in ChunkAddrs : NetworkLoses(addr)

SpecNetstore == InitNetstore /\ [][NextNetstore]_vars

----------------------------------------------------------------------------
(* Push-sync: a chunk forwarded hop by hop, each hop accounted for *)

fixedPrice == 10

\* the attempts of one node for one chunk: the closest peer, then the next
maxPushAttempts == 2

\* four nodes, a higher number being closer to the chunk
PushNodes == 1 .. 4

Mesh == {<<a, b>> : a, b \in PushNodes} \ {<<a, a>> : a \in PushNodes}
Chain == {l \in Mesh : l[1] - l[2] \in {1, 0 - 1}}
Fork == {<<1, 2>>, <<2, 1>>, <<1, 3>>, <<3, 1>>, <<2, 4>>, <<4, 2>>,
         <<3, 4>>, <<4, 3>>}
Topologies == {Mesh, Chain, Fork}

PushsyncNew(links) ==
    [service |-> "pushsync", links |-> links,
     balances |-> [a \in PushNodes |-> [b \in PushNodes |-> 0]],
     Sent |-> 0, pushes |-> 0]

\* the addresses of the chunks pushed
PushChunks == {7, 8}

\* a receipt: the address of the chunk and the node that signed
NoReceipt == [address |-> None, signer |-> None]
SignedReceipt(address, signer) == [address |-> address, signer |-> signer]

\* a push under way: the balances, the messages on the streams, the peers
\* each node tried, the tag's Sent counter at the pushing node, and the
\* receipt on its way back
PushStart(n, origin, chunk) ==
    [bal |-> n.balances, msgs |-> <<>>, tried |-> <<>>, Sent |-> n.Sent,
     origin |-> origin, chunk |-> chunk, receipt |-> NoReceipt]

Delivery(from, to) == [type |-> "Delivery", from |-> from, to |-> to]
Receipt(from, to) == [type |-> "Receipt", from |-> from, to |-> to]

\* what a push was given and what it did: the messages on the streams
PushOut(origin, chunk, down, r) ==
    [op |-> "PushChunkToClosest", peer |-> origin, ret |-> r.err,
     sent |-> r.st.msgs, dial |-> None, down |-> down, chunk |-> chunk,
     tried |-> r.st.tried,
     receipt |-> IF r.err = "nil" THEN r.st.receipt ELSE NoReceipt]

\* accounting of node self: the balance with peer after paying it
Credit(bal, self, peer, price) == [bal EXCEPT ![self][peer] = @ - price]

\* a variant of Debit to compare it with: nothing is booked
NoDebit(bal, self, peer, price) == bal

\* accounting of node self: the balance with peer after serving it
Debit(bal, self, peer, price) == [bal EXCEPT ![self][peer] = @ + price]

\* a variant of Forwarders to compare it with: no peer is left out
ForwardersAll(links, self, skip) ==
    {p \in PushNodes : <<self, p>> \in links /\ p > self}

\* ClosestPeer(ch.Address(), skip...) at node self: the candidates
Forwarders(links, self, skip) ==
    {p \in PushNodes : <<self, p>> \in links /\ p > self /\ p \notin skip}

ClosestOf(cands) == CHOOSE p \in cands : \A q \in cands : q <= p

PushResult(st, err) == [st |-> st, err |-> err]

RECURSIVE pushChunkToClosest(_, _, _, _, _, _)
RECURSIVE pushHandler(_, _, _, _, _)

\* PushChunkToClosest at node self after attempt failed attempts, the peers
\* of skip left out; the nodes of down cannot be reached
pushChunkToClosest(st, links, self, skip, attempt, down) ==
    LET cands == Forwarders(links, self, skip)
    IN  IF cands = {} THEN PushResult(st, "WantSelf")
        ELSE LET peer == ClosestOf(cands)
                 st1 == [st EXCEPT !.tried = Append(@, <<self, peer>>)]
                 h == IF peer \in down
                      THEN PushResult(st1, "peer not reachable")
                      ELSE pushHandler(
                               [st1 EXCEPT !.msgs = Append(@, Delivery(self, peer))],
                               links, peer, self, down)
             IN  IF h.err = "nil"
                 THEN PushResult(
                          [h.st EXCEPT !.bal = Credit(@, self, peer, fixedPrice),
                                       !.Sent = IF self = st.origin THEN @ + 1
                                                ELSE @],
                          "nil")
                 ELSE IF attempt + 1 >= maxPushAttempts
                      THEN PushResult(h.st, h.err)
                 ELSE pushChunkToClosest(h.st, links, self, skip \cup {peer},
                                         attempt + 1, down)

\* the handler of node self for a Delivery of node from
pushHandler(st, links, self, from, down) ==
    LET r == pushChunkToClosest(st, links, self, {from}, 0, down)
    IN  IF r.err \in {"nil", "WantSelf"}
        THEN PushResult(
                 [r.st EXCEPT !.msgs = Append(@, Receipt(self, from)),
                              !.bal = Debit(@, self, from, fixedPrice),
                              !.receipt = IF r.err = "WantSelf"
                                          THEN SignedReceipt(st.chunk, self)
                                          ELSE @],
                 "nil")
        ELSE r

\* a chunk pushed by node origin
PushChunk(origin, chunk, down) ==
    /\ node.pushes < MaxPushes
    /\ LET r == pushChunkToClosest(PushStart(node, origin, chunk),
                                   node.links, origin, {}, 0, down)
       IN  /\ node' = [node EXCEPT !.balances = r.st.bal, !.Sent = r.st.Sent,
                                   !.pushes = @ + 1]
           /\ out' = PushOut(origin, chunk, down, r)
    /\ UNCHANGED <<knownPeers, connectedPeers, depth, waitNext, manageC,
                   peerSig, config, addressBook, p2pPeers, now, mg, hist>>

DownSets == {down \in SUBSET PushNodes : Cardinality(down) <= 2}

InitPushsync ==
    /\ Kad(New(Options(FALSE, FALSE, 0, <<>>)))
    /\ addressBook = {}
    /\ p2pPeers = {}
    /\ now = 0
    /\ mg = MgIdle
    /\ out = NoOut
    /\ hist = NoHist
    /\ \E links \in Topologies : node = PushsyncNew(links)

NextPushsync ==
    \E origin \in PushNodes, chunk \in PushChunks, down \in DownSets :
        PushChunk(origin, chunk, down)

SpecPushsync == InitPushsync /\ [][NextPushsync]_vars

----------------------------------------------------------------------------
(* ChunkPipe: writes of any size passed downstream in blocks *)

ChunkSize == 4096
maxBufferSize == ChunkSize * 2

\* NewChunkPipe(): blocks are the arguments of writer.Write so far, given
\* the number of bytes Write accepted; the bytes written are numbered from 1
NewChunkPipe ==
    [service |-> "chunkpipe", data |-> [i \in 1 .. maxBufferSize |-> 0],
     cursor |-> 0, blocks |-> <<>>, given |-> 0, writes |-> 0,
     closed |-> FALSE, readerClosed |-> FALSE]

\* the bytes of a Write of n bytes after given bytes
Bytes(given, n) == [i \in 1 .. n |-> given + i]

\* what a call returned
PipeOut(op, n, err) ==
    [op |-> op, peer |-> None, ret |-> err, sent |-> {}, dial |-> None, n |-> n]

\* copy(c.data[c.cursor:], b[nw:]): the number of bytes copied
Copied(c, b, nw) ==
    IF maxBufferSize - c.cursor < Len(b) - nw THEN maxBufferSize - c.cursor
    ELSE Len(b) - nw

\* a variant of Block to compare it with: all bytes up to the cursor
BlockToCursor(c) == SubSeq(c.data, 1, c.cursor)

\* c.data[:infinity.ChunkSize]
Block(c) == SubSeq(c.data, 1, ChunkSize)

\* a variant of ShiftData to compare it with: the bytes behind the block
\* stay where they are
ShiftDataNot(data) == data

\* copy(c.data, c.data[infinity.ChunkSize:])
ShiftData(data) ==
    [i \in 1 .. maxBufferSize |->
        IF i <= maxBufferSize - ChunkSize THEN data[ChunkSize + i] ELSE data[i]]

\* the loop of Write, nw bytes of b taken
RECURSIVE WriteLoop(_, _, _)
WriteLoop(c, b, nw) ==
    IF nw >= Len(b) THEN [c |-> c, n |-> nw, err |-> "nil"]
    ELSE LET copied == Copied(c, b, nw)
             c1 == [c EXCEPT
                      !.data = [i \in 1 .. maxBufferSize |->
                                   IF i > c.cursor /\ i <= c.cursor + copied
                                   THEN b[nw + i - c.cursor] ELSE c.data[i]],
                      !.cursor = @ + copied]
             nw1 == nw + copied
         IN  IF c1.cursor >= ChunkSize
             THEN IF c1.readerClosed
                  THEN [c |-> c1, n |-> nw1, err |-> "io: read/write on closed pipe"]
                  ELSE WriteLoop([c1 EXCEPT !.blocks = Append(@, Block(c1)),
                                            !.cursor = @ - ChunkSize,
                                            !.data = ShiftData(@)],
                                 b, nw1)
             ELSE WriteLoop(c1, b, nw1)

\* c.Write(b), b having n bytes
PipeWrite(n) ==
    /\ node.writes < MaxWrites
    /\ ~node.closed
    /\ LET r == WriteLoop(node, Bytes(node.given, n), 0)
       IN  /\ node' = [r.c EXCEPT !.given = @ + r.n, !.writes = @ + 1]
           /\ out' = PipeOut("Write", r.n, r.err)
    /\ UNCHANGED <<knownPeers, connectedPeers, depth, waitNext, manageC,
                   peerSig, config, addressBook, p2pPeers, now, mg, hist>>

\* c.Close()
PipeClose ==
    /\ ~node.closed
    /\ IF node.cursor > 0 /\ node.readerClosed
       THEN /\ node' = [node EXCEPT !.closed = TRUE]
            /\ out' = PipeOut("Close", 0, "io: read/write on closed pipe")
       ELSE /\ node' = [node EXCEPT
                          !.blocks = IF node.cursor > 0
                                     THEN Append(@, SubSeq(node.data, 1, node.cursor))
                                     ELSE @,
                          !.closed = TRUE]
            /\ out' = PipeOut("Close", node.cursor, "nil")
    /\ UNCHANGED <<knownPeers, connectedPeers, depth, waitNext, manageC,
                   peerSig, config, addressBook, p2pPeers, now, mg, hist>>

\* the reading side closes the pipe
ReaderClose ==
    /\ ~node.closed
    /\ ~node.readerClosed
    /\ node' = [node EXCEPT !.readerClosed = TRUE]
    /\ UNCHANGED <<knownPeers, connectedPeers, depth, waitNext, manageC,
                   peerSig, config, addressBook, p2pPeers, now, mg, out, hist>>

WriteSizes ==
    {0, 1, ChunkSize - 1, ChunkSize + 1, maxBufferSize + ChunkSize + 5}

InitPipe ==
    /\ Kad(New(Options(FALSE, FALSE, 0, <<>>)))
    /\ addressBook = {}
    /\ p2pPeers = {}
    /\ now = 0
    /\ mg = MgIdle
    /\ out = NoOut
    /\ hist = NoHist
    /\ node = NewChunkPipe

NextPipe ==
    \/ \E n \in WriteSizes : PipeWrite(n)
    \/ PipeClose
    \/ ReaderClose

SpecPipe == InitPipe /\ [][NextPipe]_vars

----------------------------------------------------------------------------
(* A new connection step by step: announce, then the peer slices *)

\* a variant of connectedBeforeAnnounce to compare it with: the peer is
\* added before announce is called
connectedAddsFirst(addr) == Add(connectedPeers, addr)

\* the connected peers when connected, or connect, calls announce: nothing
\* was added yet
connectedBeforeAnnounce(addr) == connectedPeers

\* where a new connection stands: the peer, who dialed, and of the history
\* the peers connected at first and those whose announce went through
ConnIdle(cp) == [service |-> "kademlia", pc |-> "idle", peer |-> None,
                 inbound |-> FALSE, calls |-> 0, announced |-> {},
                 initial |-> cp]

\* Connected(ctx, peer) up to its call of announce
ConnectedEnter(p) ==
    /\ node.service = "kademlia"
    /\ node.pc = "idle"
    /\ node.calls < MaxAnnounces
    /\ p \notin p2pPeers
    /\ p \notin connectedPeers
    /\ IF ConnectedRejects(p)
       THEN /\ out' = Out("Connected", p, "Oversaturated", {}, None)
            /\ node' = [node EXCEPT !.calls = @ + 1]
            /\ UNCHANGED <<connectedPeers, p2pPeers>>
       ELSE /\ out' = NoOut
            /\ node' = [node EXCEPT !.pc = "announce", !.peer = p,
                                    !.inbound = TRUE, !.calls = @ + 1]
            /\ connectedPeers' = connectedBeforeAnnounce(p)
            /\ p2pPeers' = p2pPeers \cup {p}
    /\ UNCHANGED <<knownPeers, depth, waitNext, manageC, peerSig, config,
                   addressBook, now, mg, hist>>

\* an iteration of the bin-filling pass of manage up to the call of announce
\* in connect, p2p.Connect having reached the peer
ConnectEnter ==
    /\ node.service = "kademlia"
    /\ node.pc = "idle"
    /\ node.calls < MaxAnnounces
    /\ LET r == BinFillScan(knownPeers)
       IN  /\ r.kind = "connect"
           /\ r.peer \notin p2pPeers
           /\ node' = [node EXCEPT !.pc = "announce", !.peer = r.peer,
                                   !.inbound = FALSE, !.calls = @ + 1]
           /\ connectedPeers' = connectedBeforeAnnounce(r.peer)
           /\ p2pPeers' = p2pPeers \cup {r.peer}
    /\ out' = NoOut
    /\ UNCHANGED <<knownPeers, depth, waitNext, manageC, peerSig, config,
                   addressBook, now, mg, hist>>

AnnounceOut(peer, err, sent, visible, inbound) ==
    [op |-> "announce", peer |-> peer, ret |-> err, sent |-> sent,
     dial |-> None, visible |-> visible, inbound |-> inbound]

\* a variant of announceP2P to compare it with: the peer stays connected
announceKeepsP2P(peer, ok) == p2pPeers

\* announce: the connections of the p2p service it leaves
announceP2P(peer, ok) == IF ok THEN p2pPeers ELSE p2pPeers \ {peer}

\* announce(ctx, peer), and what its caller does with its error
AnnounceStep ==
    /\ node.service = "kademlia"
    /\ node.pc = "announce"
    /\ \E ok \in AnnounceOutcomes(node.peer) :
         /\ out' = AnnounceOut(node.peer, IF ok THEN "nil" ELSE "BroadcastError",
                               AnnounceMsgs(node.peer),
                               Exists(connectedPeers, node.peer), node.inbound)
         /\ p2pPeers' = announceP2P(node.peer, ok)
         /\ IF ok
            THEN /\ node' = [node EXCEPT !.pc = "add",
                                         !.announced = @ \cup {node.peer}]
                 /\ UNCHANGED <<waitNext, hist>>
            ELSE /\ node' = [node EXCEPT !.pc = "idle", !.peer = None]
                 /\ waitNext' = IF node.inbound \/ Has(waitNext, node.peer)
                                THEN waitNext
                                ELSE Put(waitNext, node.peer,
                                         retryInfo(now + timeToRetry, 0))
                 /\ hist' = IF node.inbound THEN hist
                            ELSE connectHist(node.peer, "announce")
    /\ UNCHANGED <<knownPeers, connectedPeers, depth, manageC, peerSig, config,
                   addressBook, now, mg>>

\* after announce: the rest of connected and of Connected, or the rest of the
\* iteration of manage
AddStep ==
    /\ node.service = "kademlia"
    /\ node.pc = "add"
    /\ node' = [node EXCEPT !.pc = "idle", !.peer = None]
    /\ IF node.inbound
       THEN /\ connected(node.peer)
            /\ manageC' = Signal(manageC)
            /\ hist' = [hist EXCEPT !.impure = @ \cup {node.peer},
                                    !.disc = Delete(@, node.peer),
                                    !.fail = Delete(@, node.peer)]
            /\ out' = Out("Connected", node.peer, "ok", {}, None)
       ELSE /\ waitNext' = Put(waitNext, node.peer, retryInfo(now + shortRetry, 0))
            /\ connectedPeers' = Add(connectedPeers, node.peer)
            /\ depth' = recalcDepth(connectedPeers')
            /\ peerSig' = notifyPeerSig(peerSig)
            /\ hist' = connectHist(node.peer, "ok")
            /\ out' = Out("connect", node.peer, "nil", {}, node.peer)
            /\ UNCHANGED <<knownPeers, manageC>>
    /\ UNCHANGED <<config, addressBook, p2pPeers, now, mg>>

AnnouncePeers == {P0, P1, P2}

InitAnnounce ==
    /\ \E cp \in SUBSET AnnouncePeers :
           Kad([New(Options(FALSE, FALSE, 0, <<>>))
                    EXCEPT !.connectedPeers = cp, !.knownPeers = AnnouncePeers,
                           !.depth = recalcDepth(cp)])
           /\ p2pPeers = cp
           /\ node = ConnIdle(cp)
    /\ addressBook = AnnouncePeers
    /\ now = 0
    /\ mg = MgIdle
    /\ out = NoOut
    /\ hist = NoHist

NextAnnounce ==
    \/ \E p \in AnnouncePeers : ConnectedEnter(p)
    \/ ConnectEnter
    \/ AnnounceStep
    \/ AddStep
    \/ \E addr \in AnnouncePeers : ClosestPeer(addr, {})
    \/ \E p \in AnnouncePeers : Disconnected(p, MaxCalls)

SpecAnnounce == InitAnnounce /\ [][NextAnnounce]_vars

----------------------------------------------------------------------------
(* Dialing underlays: the overlay that answers behind a peer's underlay *)

\* the p2p service: behind[p] is the overlay at the underlay the address
\* book has for p; found, fresh and err are what the last p2p.Connect
\* returned; dialing is the peer an iteration of manage is busy with, stale
\* if it found no address book entry for it; raced are the peers that became
\* connected while manage was busy with them
P2PService(behind) ==
    [service |-> "p2p", behind |-> behind, found |-> None, fresh |-> FALSE,
     err |-> "none", dialing |-> None, stale |-> FALSE, raced |-> {}]

\* the errors of a dial that did not get through: the manage loop was shut
\* down, the 5 s of connect were over, the transport failed, or the
\* transport asks to wait
TransientErrors ==
    {"context canceled", "context deadline exceeded", "ConnectError",
     "ConnectionBackoffError"}

\* p2p.Connect(ctx, ma) with the underlay of peer: what it may return
P2PConnect(peer) ==
    LET overlay == node.behind[peer]
    IN  {[err |-> e, overlay |-> None] : e \in TransientErrors}
        \cup {IF overlay \in p2pPeers
               THEN [err |-> "ErrAlreadyConnected", overlay |-> overlay]
               ELSE [err |-> "nil", overlay |-> overlay]}

\* a variant of connectResults to compare it with: the overlay that answers
\* is not compared with the peer
connectResultsUnchecked(peer, i) ==
    CASE i.err = "ErrAlreadyConnected" -> {"already"}
      [] i.err = "nil" -> {"ok"}
      [] i.err = "ConnectionBackoffError" -> {"backoff"}
      [] OTHER -> {"fail"}

\* connect(ctx, peer, ma, po): its ways through, given what p2p.Connect
\* returned
connectResults(peer, i) ==
    CASE i.err = "ErrAlreadyConnected" ->
           {IF i.overlay # peer THEN "alreadyOther" ELSE "already"}
      [] i.err = "nil" ->
           IF i.overlay # peer THEN {"mismatch"}
           ELSE {"ok"} \cup (IF AnnounceOthers(peer) = {} THEN {} ELSE {"announce"})
      [] i.err = "ConnectionBackoffError" -> {"backoff"}
      [] OTHER -> {"fail"}

\* an iteration of a pass of manage that calls connect
ManageDial ==
    /\ mg.pc \in {"balanced", "binfill"}
    /\ node.service = "p2p"
    /\ LET r == IF mg.pc = "balanced" THEN BalancedScan(mg.pos)
                ELSE BinFillScan(mg.todo \cap knownPeers)
       IN  /\ r.kind = "connect"
           /\ \E i \in P2PConnect(r.peer) :
                \E res \in connectResults(r.peer, i) :
                  \E hint \in (IF res = "backoff" THEN BackoffHints ELSE {None}) :
                    /\ manageConnect(r.peer, res, hint)
                    /\ node' = [node EXCEPT !.found = i.overlay,
                                            !.fresh = i.err = "nil",
                                            !.err = i.err]
           /\ mg' = IF mg.pc = "balanced" THEN [mg EXCEPT !.pos = r.next]
                    ELSE [mg EXCEPT !.todo = r.todo]
    /\ UNCHANGED <<manageC, config, now>>

\* the other iterations of the passes
ManagePass ==
    \/ /\ mg.pc = "balanced"
       /\ BalancedScan(mg.pos).kind # "connect"
       /\ ManageBalanced
    \/ /\ mg.pc = "binfill"
       /\ BinFillScan(mg.todo \cap knownPeers).kind # "connect"
       /\ ManageBinFill

MismatchPeers == {P0, P1, P2}

\* every underlay leads to its peer; or that of P0 to an overlay not heard
\* of; or that of P0 to P1; or that of P2 to P1 and that of P1 to P0
Behinds ==
    {[p \in MismatchPeers |-> p],
     [p \in MismatchPeers |-> IF p = P0 THEN Stranger ELSE p],
     [p \in MismatchPeers |-> IF p = P0 THEN P1 ELSE p],
     [p \in MismatchPeers |-> IF p = P2 THEN P1 ELSE IF p = P1 THEN P0 ELSE p]}

InitMismatch ==
    /\ \E cp \in SUBSET MismatchPeers, bsl \in {0 - 1, 0} :
           /\ Kad([New(Options(FALSE, FALSE, bsl, <<>>))
                       EXCEPT !.connectedPeers = cp, !.knownPeers = MismatchPeers,
                              !.depth = recalcDepth(cp), !.manageC = 1])
           /\ p2pPeers = cp
    /\ \E behind \in Behinds : node = P2PService(behind)
    /\ addressBook = MismatchPeers
    /\ now = 0
    /\ mg = MgIdle
    /\ out = NoOut
    /\ hist = NoHist

NextMismatch ==
    \/ ManageTimer
    \/ ManageWake
    \/ ManageDial
    \/ ManagePass
    \/ ManageBootnodes
    \/ \E p \in MismatchPeers : Disconnected(p, MaxCalls)

SpecMismatch == InitMismatch /\ [][NextMismatch]_vars

----------------------------------------------------------------------------
(* Peers dialing in while the bin-filling pass is busy with them *)

\* an iteration of the bin-filling pass up to its call of connect, or up to
\* the error it returns for a missing address book entry
DialBegin ==
    /\ mg.pc = "binfill"
    /\ node.service = "p2p"
    /\ node.dialing = None
    /\ LET r == BinFillScan(mg.todo \cap knownPeers)
       IN  /\ r.kind \in {"connect", "stale"}
           /\ node' = [node EXCEPT !.dialing = r.peer, !.stale = r.kind = "stale"]
           /\ mg' = [mg EXCEPT !.todo = r.todo]
    /\ out' = NoOut
    /\ UNCHANGED <<knownPeers, connectedPeers, depth, waitNext, manageC, peerSig,
                   config, addressBook, p2pPeers, now, hist>>

\* the known peers after connect returned err for peer
dialEndKnown(peer, err) ==
    IF err = "errOverlayMismatch" THEN Remove(knownPeers, peer) ELSE knownPeers

\* the rest of that iteration: connect, and what the pass does with its
\* error or its success; or the removal of the peer without entry, which
\* ends the pass
DialEnd ==
    /\ mg.pc = "binfill"
    /\ node.service = "p2p"
    /\ node.dialing # None
    /\ LET peer == node.dialing
           gone == [node EXCEPT !.dialing = None, !.stale = FALSE,
                                !.raced = IF Exists(connectedPeers, peer)
                                          THEN @ \cup {peer} ELSE @]
       IN  IF node.stale
           THEN /\ knownPeers' = Remove(knownPeers, peer)
                /\ mg' = AfterBinFill(connectedPeers)
                /\ node' = gone
                /\ out' = Out("stale", peer, "errMissingAddressBookEntry", {}, None)
                /\ UNCHANGED <<connectedPeers, depth, waitNext, peerSig,
                               addressBook, p2pPeers, hist>>
           ELSE \E i \in P2PConnect(peer) :
                  \E res \in connectResults(peer, i) :
                    \E hint \in (IF res = "backoff" THEN BackoffHints ELSE {None}) :
                      LET err == connectErr(res)
                          wn == connectWaitNext(peer, res, hint)
                      IN  /\ p2pPeers' = connectP2P(peer, res)
                          /\ hist' = connectHist(peer, res)
                          /\ out' = Out("connect", peer, err,
                                        IF res \in {"ok", "announce"}
                                        THEN AnnounceMsgs(peer) ELSE {}, peer)
                          /\ knownPeers' = dialEndKnown(peer, err)
                          /\ IF err # "nil"
                             THEN /\ addressBook' =
                                       IF err = "errOverlayMismatch"
                                       THEN addressBook \ {peer}
                                       ELSE connectAddressBook(peer, res)
                                  /\ waitNext' =
                                       IF Has(wn, peer) THEN wn
                                       ELSE Put(wn, peer,
                                                retryInfo(now + timeToRetry, 0))
                                  /\ UNCHANGED <<connectedPeers, depth, peerSig>>
                             ELSE /\ waitNext' =
                                       Put(wn, peer, retryInfo(now + shortRetry, 0))
                                  /\ connectedPeers' = Add(connectedPeers, peer)
                                  /\ depth' = recalcDepth(connectedPeers')
                                  /\ peerSig' = notifyPeerSig(peerSig)
                                  /\ UNCHANGED addressBook
                          /\ node' = [gone EXCEPT !.found = i.overlay,
                                                  !.fresh = i.err = "nil",
                                                  !.err = i.err]
                          /\ UNCHANGED mg
    /\ UNCHANGED <<manageC, config, now>>

\* the end of the pass
PassEnd ==
    /\ mg.pc = "binfill"
    /\ node.service = "p2p"
    /\ node.dialing = None
    /\ BinFillScan(mg.todo \cap knownPeers).kind = "end"
    /\ ManageBinFill

RacePeers == {P0, P1}

\* every underlay leads to its peer; or that of P0 to an overlay not heard
\* of; or that of P0 to P1
RaceBehinds ==
    {[p \in RacePeers |-> p],
     [p \in RacePeers |-> IF p = P0 THEN Stranger ELSE p],
     [p \in RacePeers |-> IF p = P0 THEN P1 ELSE p]}

RaceBooks == {RacePeers, {P1}}

InitRace ==
    /\ Kad([New(Options(FALSE, FALSE, 0 - 1, <<>>))
                EXCEPT !.knownPeers = RacePeers, !.manageC = 1])
    /\ p2pPeers = {}
    /\ \E behind \in RaceBehinds : node = P2PService(behind)
    /\ addressBook \in RaceBooks
    /\ now = 0
    /\ mg = MgIdle
    /\ out = NoOut
    /\ hist = NoHist

NextRace ==
    \/ ManageTimer
    \/ ManageWake
    \/ ManageBalanced
    \/ DialBegin
    \/ DialEnd
    \/ PassEnd
    \/ ManageBootnodes
    \/ \E p \in RacePeers : Connected(p, MaxCalls)
    \/ \E p \in RacePeers : Disconnected(p, MaxCalls)

SpecRace == InitRace /\ [][NextRace]_vars

----------------------------------------------------------------------------
(* The depth while several goroutines change the connected peers *)

\* the operations under way: each has changed the connected peers and has
\* not yet taken depthMu; seen are the connected peers it left; overlapped
\* tells that one of them took depthMu after another had changed the peers
NoOps == [service |-> "goroutines", pending |-> {}, calls |-> 0,
          overlapped |-> FALSE]

\* a variant of depthUnderLock to compare it with: the depth of the peers
\* the operation left behind, computed before depthMu is taken
depthOfSeen(seen) == recalcDepth(seen)

\* k.depth = recalcDepth(k.connectedPeers), evaluated while depthMu is held
depthUnderLock(seen) == recalcDepth(connectedPeers)

TopologyOps == {"Connected", "Disconnected", "ClosestPeer", "connect"}

\* the part of an operation up to k.depthMu.Lock(): connected (for
\* Connected), Disconnected (called by the p2p service, or by ClosestPeer
\* for a connected peer the p2p service does not list), and what manage
\* does after connect returned nil
TopologyWrite(p, op) ==
    /\ node.service = "goroutines"
    /\ node.calls < MaxOps
    /\ \A t \in node.pending : t.peer # p /\ (op = "connect" => t.op # "connect")
    /\ CASE op = "Connected" ->
              /\ p \notin p2pPeers
              /\ p2pPeers' = p2pPeers \cup {p}
              /\ knownPeers' = Add(knownPeers, p)
              /\ connectedPeers' = Add(connectedPeers, p)
              /\ waitNext' = Delete(waitNext, p)
         [] op = "Disconnected" ->
              /\ p \in p2pPeers
              /\ p2pPeers' = p2pPeers \ {p}
              /\ connectedPeers' = Remove(connectedPeers, p)
              /\ waitNext' = Put(waitNext, p, retryInfo(now + timeToRetry, 0))
              /\ UNCHANGED knownPeers
         [] op = "ClosestPeer" ->
              /\ Exists(connectedPeers, p)
              /\ p \notin p2pPeers
              /\ connectedPeers' = Remove(connectedPeers, p)
              /\ waitNext' = Put(waitNext, p, retryInfo(now + timeToRetry, 0))
              /\ UNCHANGED <<knownPeers, p2pPeers>>
         [] op = "connect" ->
              /\ Exists(knownPeers, p)
              /\ ~Exists(connectedPeers, p)
              /\ p \notin p2pPeers
              /\ p2pPeers' = p2pPeers \cup {p}
              /\ waitNext' = Put(waitNext, p, retryInfo(now + shortRetry, 0))
              /\ connectedPeers' = Add(connectedPeers, p)
              /\ UNCHANGED knownPeers
    /\ node' = [node EXCEPT !.calls = @ + 1,
                            !.pending = @ \cup {[peer |-> p, op |-> op,
                                                 seen |-> connectedPeers']}]
    /\ out' = NoOut
    /\ UNCHANGED <<depth, manageC, peerSig, config, addressBook, now, mg, hist>>

\* the rest of the operation: the depth under depthMu, the wake-up of
\* manage (not sent by manage itself) and the notification
TopologyRecalc ==
    /\ node.service = "goroutines"
    /\ \E t \in node.pending :
         /\ depth' = depthUnderLock(t.seen)
         /\ manageC' = IF t.op = "connect" THEN manageC ELSE Signal(manageC)
         /\ peerSig' = notifyPeerSig(peerSig)
         /\ node' = [node EXCEPT !.pending = @ \ {t},
                                 !.overlapped = @ \/ t.seen # connectedPeers]
         /\ out' = Out(t.op, t.peer, "ok", {}, None)
    /\ UNCHANGED <<knownPeers, connectedPeers, waitNext, config, addressBook,
                   p2pPeers, now, mg, hist>>

\* NeighborhoodDepth(): k.depth, read under depthMu
NeighborhoodDepth ==
    /\ out.op # "NeighborhoodDepth"
    /\ out' = Out("NeighborhoodDepth", None, depth, {}, None)
    /\ UNCHANGED <<knownPeers, connectedPeers, depth, waitNext, manageC, peerSig,
                   config, addressBook, p2pPeers, now, mg, hist, node>>

QuietPeers == {P0, P1, AddressAt(1, 1), P2, P3}

InitQuiet ==
    /\ \E cp \in SUBSET QuietPeers :
         /\ Kad([New(Options(FALSE, FALSE, 0, <<>>))
                     EXCEPT !.connectedPeers = cp, !.knownPeers = QuietPeers,
                            !.depth = recalcDepth(cp)])
         /\ p2pPeers \in {cp, cp \ {P3}}
    /\ addressBook = QuietPeers
    /\ now = 0
    /\ mg = MgIdle
    /\ out = NoOut
    /\ hist = NoHist
    /\ node = NoOps

NextQuiet ==
    \/ \E p \in QuietPeers : \E op \in TopologyOps : TopologyWrite(p, op)
    \/ TopologyRecalc
    \/ NeighborhoodDepth

SpecQuiet == InitQuiet /\ [][NextQuiet]_vars

----------------------------------------------------------------------------
(* simpleSplitter.Split: the read loop between the input and the hashing job *)

\* Split after NewSimpleSplitterJob: the stream r of length bytes (numbered
\* from 1), total, eof, and of the job the bytes written to it; dropped are
\* the bytes that a Read returned and that went to no Write, last the count
\* of the Read that returned io.EOF
SplitStart(length, dataLength) ==
    [service |-> "splitter", length |-> length, dataLength |-> dataLength,
     total |-> 0, eof |-> FALSE, hashed |-> <<>>, dropped |-> <<>>,
     last |-> 0, pc |-> "loop", err |-> "none"]

\* what r.Read(data) may return with total bytes read so far: a count of at
\* most len(data) bytes and nil, io.EOF when the count reaches the end of
\* the stream, or another error
ReadOutcomes(length, total) ==
    {[c |-> c, err |-> e] :
        c \in 0 .. (IF length - total < ChunkSize THEN length - total ELSE ChunkSize),
        e \in {"nil", "EOF", "ErrUnexpectedEOF"}}
    \ {o \in [c : 0 .. length, err : {"EOF"}] : total + o.c # length}

\* j.Write(data[:c]): the job takes the bytes and returns their count, or
\* it fails
JobOutcomes == {"nil", "error"}

\* a variant of splitIteration to compare it with: the bytes that come with
\* io.EOF are written to the job
splitIterationWritesAtEOF(total, dataLength, c, err) ==
    IF err = "EOF"
    THEN IF total + c < dataLength
         THEN [write |-> FALSE, eof |-> FALSE, fail |-> "splitter only received"]
         ELSE [write |-> TRUE, eof |-> TRUE, fail |-> "nil"]
    ELSE IF err # "nil"
    THEN [write |-> FALSE, eof |-> FALSE, fail |-> err]
    ELSE [write |-> TRUE, eof |-> FALSE, fail |-> "nil"]

\* one iteration of the loop up to j.Write, after r.Read returned (c, err)
\* with total bytes read before: whether data[:c] is written to the job,
\* whether eof is set, and the error Split returns
splitIteration(total, dataLength, c, err) ==
    IF err = "EOF"
    THEN IF total + c < dataLength
         THEN [write |-> FALSE, eof |-> FALSE, fail |-> "splitter only received"]
         ELSE [write |-> FALSE, eof |-> TRUE, fail |-> "nil"]
    ELSE IF err # "nil"
    THEN [write |-> FALSE, eof |-> FALSE, fail |-> err]
    ELSE [write |-> TRUE, eof |-> FALSE, fail |-> "nil"]

\* an iteration of the loop of Split
SplitRead ==
    /\ node.service = "splitter"
    /\ node.pc = "loop"
    /\ ~node.eof
    /\ \E o \in ReadOutcomes(node.length, node.total), w \in JobOutcomes :
         LET it == splitIteration(node.total, node.dataLength, o.c, o.err)
             data == Bytes(node.total, o.c)
             failed == IF it.fail # "nil" THEN it.fail
                       ELSE IF it.write /\ w # "nil" THEN "write error"
                       ELSE "nil"
         IN  /\ node' = [node EXCEPT
                    !.total = @ + o.c,
                    !.last = IF o.err = "EOF" THEN o.c ELSE @,
                    !.eof = it.eof,
                    !.hashed = IF it.write /\ w = "nil" THEN @ \o data ELSE @,
                    !.dropped = IF it.write /\ w = "nil" THEN @ ELSE @ \o data,
                    !.pc = IF failed # "nil" THEN "failed" ELSE "loop",
                    !.err = IF failed # "nil" THEN failed ELSE @]
             /\ out' = Out("Read", None, o.err, {}, None)
    /\ UNCHANGED <<knownPeers, connectedPeers, depth, waitNext, manageC, peerSig,
                   config, addressBook, p2pPeers, now, mg, hist>>

\* the end of Split: j.Sum(nil), and the address is returned with a nil error
SplitSum ==
    /\ node.service = "splitter"
    /\ node.pc = "loop"
    /\ node.eof
    /\ node' = [node EXCEPT !.pc = "done", !.err = "nil"]
    /\ out' = Out("Split", None, "nil", {}, None)
    /\ UNCHANGED <<knownPeers, connectedPeers, depth, waitNext, manageC, peerSig,
                   config, addressBook, p2pPeers, now, mg, hist>>

InitSplit ==
    /\ Kad(New(Options(FALSE, FALSE, 0, <<>>)))
    /\ addressBook = {}
    /\ p2pPeers = {}
    /\ now = 0
    /\ mg = MgIdle
    /\ out = NoOut
    /\ hist = NoHist
    /\ \E length \in 0 .. MaxData, dataLength \in 0 .. MaxData :
         node = SplitStart(length, dataLength)

NextSplit == SplitRead \/ SplitSum

SpecSplit == InitSplit /\ [][NextSplit]_vars

----------------------------------------------------------------------------
(* generateCommonBinPrefixes on addresses of PrefixBits bits *)

\* binPrefixes[i][j] after the three loops, for a base address given by its
\* bits, the first the most significant: the copy of the base, bit i
\* flipped, the suffix set from bit i + 1 on, the rest cleared
generateCommonBinPrefixes(bits, bsl, i, j) ==
    [l \in 1 .. Len(bits) |->
        IF l - 1 < i THEN bits[l]
        ELSE IF l - 1 = i THEN 1 - bits[l]
        ELSE IF l - 1 < i + bsl + 1 THEN suffixBit(j, i + bsl - (l - 1))
        ELSE 0]

\* a node made with the base address bits and the suffix length bsl; addr
\* is the pseudo address j of bin i once generated
NoPrefix(bits, bsl, i, j) ==
    [service |-> "prefixes", base |-> bits, bsl |-> bsl, i |-> i, j |-> j,
     addr |-> <<>>]

GenerateCommonBinPrefixes ==
    /\ node.service = "prefixes"
    /\ node.addr = <<>>
    /\ node' = [node EXCEPT
                  !.addr = generateCommonBinPrefixes(node.base, node.bsl,
                                                     node.i, node.j)]
    /\ out' = Out("generateCommonBinPrefixes", None, "ok", {}, None)
    /\ UNCHANGED <<knownPeers, connectedPeers, depth, waitNext, manageC, peerSig,
                   config, addressBook, p2pPeers, now, mg, hist>>

PrefixBases ==
    {[l \in 1 .. PrefixBits |-> 0], [l \in 1 .. PrefixBits |-> 1],
     [l \in 1 .. PrefixBits |-> l % 2]}

PrefixLengths == {1, 2, 3, 9}

InitPrefix ==
    /\ Kad(New(Options(FALSE, FALSE, 0, <<>>)))
    /\ addressBook = {}
    /\ p2pPeers = {}
    /\ now = 0
    /\ mg = MgIdle
    /\ out = NoOut
    /\ hist = NoHist
    /\ \E bits \in PrefixBases, bsl \in PrefixLengths, i \in Bins :
         \E j \in 0 .. Pow2(bsl) - 1 : node = NoPrefix(bits, bsl, i, j)

NextPrefix == GenerateCommonBinPrefixes

SpecPrefix == InitPrefix /\ [][NextPrefix]_vars

----------------------------------------------------------------------------
(* localstore: DB.PinnedChunks over a pin index of numbered items *)

\* hard limit of page size
maxPage == 1000

\* a call of PinnedChunks(ctx, offset, limit) on a pin index of pinned
\* items: the two parameters as the call changes them, pos the items the
\* iterator has passed, and of chunks the number of its first item and its
\* length; given are the arguments of the call
PinnedChunksStart(pinned, offset, limit) ==
    [service |-> "localstore", pinned |-> pinned, offset |-> offset,
     limit |-> limit, pos |-> 0, first |-> 0, returned |-> 0, pc |-> "call",
     given |-> [offset |-> offset, limit |-> limit]]

\* PinnedChunks up to the iteration: the limit is cut to maxPage, and with
\* nothing pinned the call returns nil
PinnedChunksEnter ==
    /\ node.service = "localstore"
    /\ node.pc = "call"
    /\ node' = [node EXCEPT
                  !.limit = IF @ > maxPage THEN maxPage ELSE @,
                  !.pc = IF node.pinned = 0 THEN "done" ELSE "iterate"]
    /\ out' = NoOut
    /\ UNCHANGED <<knownPeers, connectedPeers, depth, waitNext, manageC, peerSig,
                   config, addressBook, p2pPeers, now, mg, hist>>

\* a variant of pinItem to compare it with: the iteration stops when the
\* limit is used up or was none
pinItemStopsBelow(offset, limit) ==
    IF offset > 0
    THEN [offset |-> offset - 1, limit |-> limit, append |-> FALSE, stop |-> FALSE]
    ELSE [offset |-> offset, limit |-> limit - 1, append |-> limit > 0,
          stop |-> limit - 1 <= 0]

\* the function PinnedChunks iterates with, on one item
pinItem(offset, limit) ==
    IF offset > 0
    THEN [offset |-> offset - 1, limit |-> limit, append |-> FALSE, stop |-> FALSE]
    ELSE [offset |-> offset, limit |-> limit - 1, append |-> TRUE,
          stop |-> limit - 1 = 0]

\* db.pinIndex.Iterate: the next item, or the end of the index
PinIterate ==
    /\ node.service = "localstore"
    /\ node.pc = "iterate"
    /\ IF node.pos = node.pinned
       THEN node' = [node EXCEPT !.pc = "done"]
       ELSE LET r == pinItem(node.offset, node.limit)
            IN  node' = [node EXCEPT
                           !.offset = r.offset,
                           !.limit = r.limit,
                           !.pos = @ + 1,
                           !.first = IF r.append /\ node.returned = 0
                                     THEN node.pos + 1 ELSE @,
                           !.returned = IF r.append THEN @ + 1 ELSE @,
                           !.pc = IF r.stop THEN "done" ELSE "iterate"]
    /\ out' = IF node'.pc = "done"
              THEN Out("PinnedChunks", None, "nil", {}, None) ELSE NoOut
    /\ UNCHANGED <<knownPeers, connectedPeers, depth, waitNext, manageC, peerSig,
                   config, addressBook, p2pPeers, now, mg, hist>>

PinCounts == {0, 3, maxPage + 2}

PinOffsets == {0 - 1, 0, 2, maxPage + 1}

PinLimits == {0 - 1, 0, 1, 2, maxPage, maxPage + 1}

InitPins ==
    /\ Kad(New(Options(FALSE, FALSE, 0, <<>>)))
    /\ addressBook = {}
    /\ p2pPeers = {}
    /\ now = 0
    /\ mg = MgIdle
    /\ out = NoOut
    /\ hist = NoHist
    /\ \E pinned \in PinCounts, offset \in PinOffsets, limit \in PinLimits :
         node = PinnedChunksStart(pinned, offset, limit)

NextPins == PinnedChunksEnter \/ PinIterate

SpecPins == InitPins /\ [][NextPins]_vars

----------------------------------------------------------------------------
(* Dials that do not get through: one peer, the clock, the manage loop *)

CancelPeers == {P0, P1}

InitCancel ==
    /\ Kad([New(Options(FALSE, FALSE, 0 - 1, <<>>))
                EXCEPT !.knownPeers = CancelPeers, !.manageC = 1])
    /\ p2pPeers = {}
    /\ node = P2PService([p \in CancelPeers |-> p])
    /\ addressBook = CancelPeers
    /\ now = 0
    /\ mg = MgIdle
    /\ out = NoOut
    /\ hist = NoHist

NextCancel ==
    \/ Tick(LongTime)
    \/ ManageTimer
    \/ ManageWake
    \/ ManageDial
    \/ ManagePass
    \/ ManageBootnodes

SpecCancel == InitCancel /\ [][NextCancel]_vars

----------------------------------------------------------------------------
(* Filling bins, peer by peer: bin 0 near saturation, deeper peers known,
   one of them disconnected half a minute before its retry time *)

\* a variant of binFillVisit to compare it with: a saturated bin is left at
\* the peer alone, the other peers of the bin are visited
binFillVisitPeerwise(todo) ==
    LET peer == Head(EachBinRev(todo))
        rest == todo \ {peer}
    IN  IF Exists(connectedPeers, peer) \/ Sanctioned(peer)
        THEN [kind |-> "skip", peer |-> peer, todo |-> rest]
        ELSE IF saturationFunc(PO(peer), knownPeers, connectedPeers).saturated
        THEN [kind |-> "jump", peer |-> peer, todo |-> rest]
        ELSE IF peer \notin addressBook
        THEN [kind |-> "stale", peer |-> peer, todo |-> rest]
        ELSE [kind |-> "connect", peer |-> peer, todo |-> rest]

\* one call of the function the bin-filling pass hands to EachBinRev, for
\* the first of the peers todo the pass has not visited
binFillVisit(todo) ==
    LET peer == Head(EachBinRev(todo))
        rest == todo \ {peer}
    IN  IF Exists(connectedPeers, peer) \/ Sanctioned(peer)
        THEN [kind |-> "skip", peer |-> peer, todo |-> rest]
        ELSE IF saturationFunc(PO(peer), knownPeers, connectedPeers).saturated
        THEN [kind |-> "jump", peer |-> peer,
              todo |-> {q \in rest : PO(q) # PO(peer)}]
        ELSE IF peer \notin addressBook
        THEN [kind |-> "stale", peer |-> peer, todo |-> rest]
        ELSE [kind |-> "connect", peer |-> peer, todo |-> rest]

\* the bins the running pass was told are saturated
NoBins == [service |-> "manage", reported |-> {}]

\* a dial gets through or fails
Reached == out'.op = "connect" => out'.ret \in {"nil", "ConnectError"}

\* the bin-filling pass peer by peer: one iteration, or its end
ManageVisit ==
    /\ mg.pc = "binfill"
    /\ node.service = "manage"
    /\ IF mg.todo \cap knownPeers = {}
       THEN /\ mg' = AfterBinFill(connectedPeers)
            /\ node' = NoBins
            /\ out' = NoOut
            /\ UNCHANGED <<knownPeers, connectedPeers, depth, waitNext,
                           peerSig, addressBook, p2pPeers, hist>>
       ELSE LET r == binFillVisit(mg.todo \cap knownPeers)
            IN  CASE r.kind = "skip" ->
                       /\ mg' = [mg EXCEPT !.todo = r.todo]
                       /\ out' = Out("skip", r.peer, "none", {}, None)
                       /\ UNCHANGED <<knownPeers, connectedPeers, depth, waitNext,
                                      peerSig, addressBook, p2pPeers, hist, node>>
                  [] r.kind = "jump" ->
                       /\ mg' = [mg EXCEPT !.todo = r.todo]
                       /\ node' = [node EXCEPT !.reported = @ \cup {PO(r.peer)}]
                       /\ out' = Out("saturated", r.peer, "none", {}, None)
                       /\ UNCHANGED <<knownPeers, connectedPeers, depth, waitNext,
                                      peerSig, addressBook, p2pPeers, hist>>
                  [] r.kind = "stale" ->
                       /\ knownPeers' = Remove(knownPeers, r.peer)
                       /\ mg' = AfterBinFill(connectedPeers)
                       /\ node' = NoBins
                       /\ out' = Out("stale", r.peer, "errMissingAddressBookEntry",
                                     {}, None)
                       /\ UNCHANGED <<connectedPeers, depth, waitNext, peerSig,
                                      addressBook, p2pPeers, hist>>
                  [] r.kind = "connect" ->
                       /\ \E res \in ConnectOutcomes(r.peer) :
                            \E hint \in (IF res = "backoff" THEN BackoffHints
                                         ELSE {None}) :
                              manageConnect(r.peer, res, hint)
                       /\ Reached
                       /\ mg' = [mg EXCEPT !.todo = r.todo]
                       /\ UNCHANGED node
    /\ UNCHANGED <<manageC, config, now>>

FillKnown == CrowdFirst(saturationPeers + 2) \cup {P1, P2}

FillStarters == {CrowdFirst(n) : n \in {saturationPeers - 1, saturationPeers}}

InitFill ==
    /\ \E cp \in FillStarters :
           Kad([New(Options(FALSE, FALSE, 0 - 1, <<>>))
                    EXCEPT !.connectedPeers = cp, !.knownPeers = FillKnown,
                           !.depth = recalcDepth(cp), !.manageC = 1,
                           !.waitNext = Put(EmptyMap, P2,
                                            retryInfo(manageTick, 0))])
           /\ p2pPeers = cp
    /\ addressBook = FillKnown
    /\ now = 0
    /\ mg = MgIdle
    /\ out = NoOut
    /\ hist = NoHist
    /\ node = NoBins

NextFill ==
    \/ Tick(manageTick)
    \/ ManageTimer
    \/ ManageWake
    \/ ManageBalanced
    \/ ManageVisit
    \/ \E p \in CrowdFirst(2) : Disconnected(p, MaxCalls)

SpecFill == InitFill /\ [][NextFill]_vars

----------------------------------------------------------------------------
(* Stale peers: known peers the address book has no entry for *)

\* a peer in every quarter of bin 0, and one of bin 1
StalePeers == {AddressAt(0, j * Pow2(AddrBits - 3) + 1) : j \in 0 .. 3} \cup {P1}

StaleStarters == {AddressAt(0, 1), P1}

\* the address book has lost the entries of none, some or all of the peers
\* that are not connected
StaleBooks ==
    {StalePeers \ lost : lost \in SUBSET {AddressAt(0, Pow2(AddrBits - 2) + 1), P1}}
    \cup {StaleStarters, {}}

InitStale ==
    /\ \E cp \in SUBSET StaleStarters, bsl \in {0 - 1, 1} :
           Kad([New(Options(FALSE, FALSE, bsl, <<>>))
                    EXCEPT !.connectedPeers = cp, !.knownPeers = StalePeers,
                           !.depth = recalcDepth(cp), !.manageC = 1])
           /\ p2pPeers = cp
    /\ addressBook \in StaleBooks
    /\ now = 0
    /\ mg = MgIdle
    /\ out = NoOut
    /\ hist = NoHist
    /\ node = NoNode

NextStale ==
    \/ ManageTimer
    \/ ManageWake
    \/ ManageBalanced
    \/ ManageBinFill
    \/ ManageBootnodes
    \/ \E p \in StalePeers : Disconnected(p, MaxCalls)

SpecStale == InitStale /\ [][NextStale]_vars

----------------------------------------------------------------------------
(* Wake-ups: AddPeers called at any moment of the manage loop *)

\* the callers of AddPeers: waiting are the peers handed over since the last
\* pass began, covered the peers handed over before a pass began
NoAdds == [service |-> "callers", waiting |-> {}, covered |-> {}, calls |-> 0]

\* AddPeers(ctx, addr)
AddPeersCall(p) ==
    /\ node.service = "callers"
    /\ node.calls < MaxAdds
    /\ addPeers(p)
    /\ node' = [node EXCEPT !.waiting = @ \cup {p}, !.calls = @ + 1]
    /\ out' = Out("AddPeers", p, "nil", {}, None)
    /\ UNCHANGED <<connectedPeers, depth, waitNext, peerSig, config, addressBook,
                   p2pPeers, now, mg, hist>>

\* manage receives from manageC and begins its passes
ManageReceive ==
    /\ node.service = "callers"
    /\ mg.pc = "idle"
    /\ manageC = 1
    /\ manageC' = 0
    /\ mg' = IF standalone THEN mg ELSE [MgIdle EXCEPT !.pc = "balanced"]
    /\ out' = NoOut
    /\ hist' = [hist EXCEPT !.dials = EmptyMap, !.joined = {}]
    /\ node' = [node EXCEPT !.waiting = {},
                            !.covered = @ \cup node.waiting]
    /\ UNCHANGED <<knownPeers, connectedPeers, depth, waitNext, peerSig, config,
                   addressBook, p2pPeers, now>>

WakePeers == {P0, P1}

InitWake ==
    /\ Kad(New(Options(FALSE, FALSE, 0, <<>>)))
    /\ addressBook = WakePeers
    /\ p2pPeers = {}
    /\ now = 0
    /\ mg = MgIdle
    /\ out = NoOut
    /\ hist = NoHist
    /\ node = NoAdds

NextWake ==
    \/ \E p \in WakePeers : AddPeersCall(p)
    \/ ManageReceive
    \/ ManageBalanced
    \/ ManageBinFill
    \/ ManageBootnodes

\* manage is a goroutine of its own: it receives from manageC when a signal
\* waits there, and a pass it has begun, a finite loop over bins and peers
\* with dials of 5 s at most, comes to its end. The 30 s timer is left out:
\* nothing here may depend on it.
SpecWake ==
    /\ InitWake
    /\ [][NextWake]_vars
    /\ WF_vars(ManageReceive)
    /\ []<>(mg.pc = "idle")

----------------------------------------------------------------------------
(* calculateNumberOfChunks: the chunks of a content length *)

Branches == 128
EncryptedBranches == 64

\* 64-bit numbers are pairs <<h, l>> that stand for h * Limb + l
LimbBits == 24
Limb == Pow2(LimbBits)

Num(h, l) == <<h + l \div Limb, l % Limb>>
NumOf(n) == Num(0, n)
NumAdd(x, y) == Num(x[1] + y[1], x[2] + y[2])

\* x / 2^k: the whole part, and whether a fraction is left
RECURSIVE Shr(_, _, _)
Shr(x, k, sticky) ==
    IF k = 0 THEN [q |-> x, sticky |-> sticky]
    ELSE LET s == IF k > 12 THEN 12 ELSE k
             p == Pow2(s)
         IN  Shr(<<x[1] \div p, (x[1] % p) * Pow2(LimbBits - s) + x[2] \div p>>,
                 k - s, sticky \/ x[2] % p # 0)

\* math.Ceil(x / 2^k)
CeilShr(x, k) ==
    LET r == Shr(x, k, FALSE)
    IN  IF r.sticky THEN NumAdd(r.q, NumOf(1)) ELSE r.q

\* x / 2^k > 1
ShrAboveOne(x, k) ==
    LET r == Shr(x, k, FALSE)
    IN  r.q[1] > 0 \/ r.q[2] > 1 \/ (r.q[2] = 1 /\ r.sticky)

\* float64(x) for x below 2^54: exact below 2^53, and from there the nearest
\* even number, of two equally near ones the multiple of 4
Float64(x) ==
    IF x[1] < Pow2(53 - LimbBits) THEN x
    ELSE CASE x[2] % 4 = 1 -> Num(x[1], x[2] - 1)
           [] x[2] % 4 = 3 -> Num(x[1], x[2] + 1)
           [] OTHER -> x

\* the number of bits of a branching factor
BitsOf(branchingFactor) == CHOOSE k \in 1 .. 12 : Pow2(k) = branchingFactor

\* the for loop of calculateNumberOfChunks: intermediate is
\* dataChunks / 2^k
RECURSIVE chunksLoop(_, _, _, _)
chunksLoop(dataChunks, k, bits, totalChunks) ==
    IF ShrAboveOne(dataChunks, k)
    THEN chunksLoop(dataChunks, k + bits, bits,
                    NumAdd(totalChunks, CeilShr(dataChunks, k)))
    ELSE totalChunks

\* a variant of calculateNumberOfChunks to compare it with: the root is
\* not counted
calculateNumberOfChunksNoRoot(contentLength, isEncrypted) ==
    IF contentLength[1] = 0 /\ contentLength[2] <= ChunkSize THEN NumOf(1)
    ELSE LET bits == BitsOf(IF isEncrypted THEN EncryptedBranches ELSE Branches)
             dataChunks == CeilShr(Float64(contentLength), BitsOf(ChunkSize))
         IN  chunksLoop(dataChunks, bits, bits, dataChunks)

\* calculateNumberOfChunks(contentLength, isEncrypted)
calculateNumberOfChunks(contentLength, isEncrypted) ==
    IF contentLength[1] = 0 /\ contentLength[2] <= ChunkSize THEN NumOf(1)
    ELSE LET bits == BitsOf(IF isEncrypted THEN EncryptedBranches ELSE Branches)
             dataChunks == CeilShr(Float64(contentLength), BitsOf(ChunkSize))
         IN  NumAdd(chunksLoop(dataChunks, bits, bits, dataChunks), NumOf(1))

ChunksOut(contentLength, isEncrypted, chunks) ==
    [op |-> "calculateNumberOfChunks", peer |-> None, ret |-> chunks,
     sent |-> {}, dial |-> None, contentLength |-> contentLength,
     isEncrypted |-> isEncrypted]

CalculateNumberOfChunks(contentLength, isEncrypted) ==
    /\ out.op # "calculateNumberOfChunks"
    /\ out' = ChunksOut(contentLength, isEncrypted,
                        calculateNumberOfChunks(contentLength, isEncrypted))
    /\ UNCHANGED <<knownPeers, connectedPeers, depth, waitNext, manageC,
                   peerSig, config, node, addressBook, p2pPeers, now, mg, hist>>

\* the lengths of TestCalculateNumberOfChunks
TestLengths ==
    {NumOf(1000), NumOf(5000), NumOf(10000), NumOf(100000), NumOf(1000000),
     Num(19421, 9027274)}

\* lengths around the sizes of one chunk, of one full level, of two
LevelLengths ==
    {NumOf(n * ChunkSize + d) :
        n \in {0, 1, 2, 63, 64, 65, 127, 128, 129, 4095, 4096, 4097,
               8191, 8192, 8193, 16383, 16384, 16385},
        d \in {0, 1, ChunkSize - 1}}

\* lengths from 2^53 on
HugeLengths ==
    {Num(Pow2(53 - LimbBits), d) : d \in {0, 1, 2, 3, 4, ChunkSize + 1}}

ContentLengths == TestLengths \cup LevelLengths \cup HugeLengths

InitChunks ==
    /\ Kad(New(Options(FALSE, FALSE, 0, <<>>)))
    /\ addressBook = {}
    /\ p2pPeers = {}
    /\ now = 0
    /\ mg = MgIdle
    /\ out = NoOut
    /\ hist = NoHist
    /\ node = NoNode

NextChunks ==
    \E contentLength \in ContentLengths, isEncrypted \in BOOLEAN :
        CalculateNumberOfChunks(contentLength, isEncrypted)

SpecChunks == InitChunks /\ [][NextChunks]_vars

----------------------------------------------------------------------------
(* The node's state store: InitStateStore and CheckOverlayWithStore *)

overlayKey == "overlay"

ErrNotFound == "storage: not found"
ErrStore == "store failure"
ErrOverlayChanged == "overlay address changed"

EmptyStore == [key \in {overlayKey} |-> None]

\* InitStateStore(log, dataDir): without a data directory a new store in
\* memory, else the store kept in the directory
InitStateStore(dataDir, kept) == IF dataDir = "" THEN EmptyStore ELSE kept

\* storer.Get(key, &value): the value and the error
StorerGet(storer, key, failure) ==
    IF failure = "Get" THEN <<None, ErrStore>>
    ELSE IF storer[key] = None THEN <<None, ErrNotFound>>
    ELSE <<storer[key], "nil">>

\* storer.Put(key, value): the store and the error
StorerPut(storer, key, value, failure) ==
    IF failure = "Put" THEN <<storer, ErrStore>>
    ELSE <<[storer EXCEPT ![key] = value], "nil">>

\* a variant of CheckOverlayWithStore to compare it with: a changed overlay
\* replaces the stored one
CheckOverlayWithStoreReplacing(overlay, storer, failure) ==
    LET got == StorerGet(storer, overlayKey, failure)
    IN  IF got[2] = ErrStore THEN <<storer, got[2]>>
        ELSE StorerPut(storer, overlayKey, overlay, failure)

\* CheckOverlayWithStore(overlay, storer): the store and the error
CheckOverlayWithStore(overlay, storer, failure) ==
    LET got == StorerGet(storer, overlayKey, failure)
    IN  IF got[2] # "nil"
        THEN IF got[2] # ErrNotFound THEN <<storer, got[2]>>
             ELSE StorerPut(storer, overlayKey, overlay, failure)
        ELSE IF got[1] # overlay THEN <<storer, ErrOverlayChanged>>
             ELSE <<storer, "nil">>

BootOut(overlay, failure, before, err) ==
    [op |-> "Boot", peer |-> None, ret |-> err, sent |-> {}, dial |-> None,
     overlay |-> overlay, failure |-> failure, before |-> before]

\* one start of the node with the given overlay
Boot(overlay, failure) ==
    LET storer == InitStateStore(node.dataDir, node.store)
        r == CheckOverlayWithStore(overlay, storer, failure)
    IN  /\ node.service = "node"
        /\ node.boots < MaxBoots
        /\ node' = [node EXCEPT !.store = r[1], !.boots = @ + 1,
                                !.first = IF @ = None /\ r[2] = "nil"
                                          THEN overlay ELSE @]
        /\ out' = BootOut(overlay, failure, storer[overlayKey], r[2])
        /\ UNCHANGED <<knownPeers, connectedPeers, depth, waitNext, manageC,
                       peerSig, config, addressBook, p2pPeers, now, mg, hist>>

Overlays == {P0, P1, P2}
StoreFailures == {"none", "Get", "Put"}
DataDirs == {"", "data"}

InitNode ==
    /\ Kad(New(Options(FALSE, FALSE, 0, <<>>)))
    /\ addressBook = {}
    /\ p2pPeers = {}
    /\ now = 0
    /\ mg = MgIdle
    /\ out = NoOut
    /\ hist = NoHist
    /\ \E dataDir \in DataDirs :
           node = [service |-> "node", dataDir |-> dataDir,
                   store |-> EmptyStore, boots |-> 0, first |-> None]

NextNode ==
    \E overlay \in Overlays, failure \in StoreFailures : Boot(overlay, failure)

SpecNode == InitNode /\ [][NextNode]_vars

----------------------------------------------------------------------------
(* The properties *)

\* the peers of a slice in bin b
InBin(peers, b) == {p \in peers : Proximity(base, p) = b}

\* the depth as specified: 0 with fewer than nnLowWatermark peers, else the
\* lesser of the shallowest empty bin (MaxPO + 1 if none) and the candidate,
\* the bin of the second peer met from the deepest bin down
SpecifiedDepth(peers) ==
    LET empty == {b \in Bins : InBin(peers, b) = {}}
        shallowestEmpty == IF empty = {} THEN MaxPO + 1 ELSE SetMin(empty)
        candidate ==
            SetMax({b \in Bins :
                      Cardinality({p \in peers : Proximity(base, p) >= b})
                        >= nnLowWatermark})
    IN  IF Cardinality(peers) < nnLowWatermark THEN 0
        ELSE IF shallowestEmpty < candidate THEN shallowestEmpty ELSE candidate

\* the bin of p is oversaturated
OversaturatedBin(p) ==
    /\ Proximity(base, p) < SpecifiedDepth(knownPeers)
    /\ Cardinality(InBin(connectedPeers, Proximity(base, p))) >= overSaturationPeers

\* the connect failures of p, if nothing else has happened to it
PlainFailures(p) == IF p \in hist.impure THEN 0 ELSE Get(hist.fails, p, 0)

C2RecalcDepthAsSpecified ==
    out.op = "recalcDepth" => out.ret = SpecifiedDepth(connectedPeers)

C2Witness ==
    /\ out.op = "recalcDepth"
    /\ out.ret > 1
    /\ out.ret < MaxPO

\* C3: when the node is no bootnode and the bin of the dialing peer is
\* oversaturated, Connected returns Oversaturated, sends no announce and
\* leaves the connected peers, the known peers, the depth and the retry map
\* as they were.
C3OversaturatedRejected ==
    [][\A p \in SatDialers :
         (~bootnode /\ OversaturatedBin(p)
          /\ out'.op = "Connected" /\ out'.peer = p)
         => /\ out'.ret = "Oversaturated"
            /\ out'.sent = {}
            /\ UNCHANGED <<connectedPeers, knownPeers, depth, waitNext>>]_vars

C3Witness ==
    /\ ~bootnode
    /\ out.op = "Connected"
    /\ out.ret = "Oversaturated"
    /\ out.peer \notin connectedPeers

\* C4: Pick returns false exactly when the node is no bootnode and the bin
\* of the peer is oversaturated; a bootnode picks every peer, and its
\* Connected never rejects one as oversaturated, however full the bin.
C4PickIffNotOversaturated ==
    /\ out.op = "Pick"
         => ((out.ret = FALSE) <=> (~bootnode /\ OversaturatedBin(out.peer)))
    /\ (bootnode /\ out.op = "Connected")
         => /\ out.ret # "Oversaturated"
            /\ out.ret = "ok" => out.peer \in connectedPeers

C4Witness ==
    /\ bootnode
    /\ out.op = "Connected"
    /\ out.ret = "ok"
    /\ Cardinality(InBin(connectedPeers, Proximity(base, out.peer)))
         > overSaturationPeers

\* C5, as found: binSaturated returns (false, false) for every bin at or above
\* the depth of the known peers, and for every shallower bin saturated iff
\* the bin holds at least saturationPeers connected peers, oversaturated iff
\* at least overSaturationPeers.
C5BinSaturatedByKnownDepth ==
    out.op = "binSaturated" =>
        LET size == Cardinality(InBin(connectedPeers, out.peer))
        IN  out.ret = IF out.peer >= SpecifiedDepth(knownPeers)
                      THEN [saturated |-> FALSE, oversaturated |-> FALSE]
                      ELSE [saturated |-> size >= saturationPeers,
                            oversaturated |-> size >= overSaturationPeers]

\* C5, as claimed: the depth is the one computed from the connected peers.
C5BinSaturatedByConnectedDepth ==
    out.op = "binSaturated" =>
        LET size == Cardinality(InBin(connectedPeers, out.peer))
        IN  out.ret = IF out.peer >= SpecifiedDepth(connectedPeers)
                      THEN [saturated |-> FALSE, oversaturated |-> FALSE]
                      ELSE [saturated |-> size >= saturationPeers,
                            oversaturated |-> size >= overSaturationPeers]

C5Witness ==
    /\ out.op = "binSaturated"
    /\ out.ret.oversaturated
    /\ out.peer >= SpecifiedDepth(connectedPeers)

\* C6, as found: once Disconnected(peer) has returned the peer is not in the
\* connected peers, and for timeToRetry after the call neither pass of the
\* manage loop connects to the peer.
C6NoPassConnectAfterDisconnected ==
    [][\A p \in Peers :
         /\ (out'.op = "Disconnected" /\ out'.peer = p) => p \notin connectedPeers'
         /\ (out'.op = "connect" /\ out'.dial = p) => ~Has(hist.disc, p)]_vars

\* C6, as claimed: for timeToRetry after Disconnected(peer) the manage loop
\* makes no connect attempt to the peer, its dialing of bootnodes included.
C6NoConnectAfterDisconnected ==
    [][\A p \in Peers :
         /\ (out'.op = "Disconnected" /\ out'.peer = p) => p \notin connectedPeers'
         /\ (out'.op \in {"connect", "bootnode"} /\ out'.dial = p)
              => ~Has(hist.disc, p)]_vars

C6Witness ==
    \E p \in Peers :
        /\ Has(hist.disc, p)
        /\ now > hist.disc[p]
        /\ mg.pc = "binfill"
        /\ p \in mg.todo
        /\ p \in addressBook
        /\ p \notin connectedPeers

\* C7: for timeToRetry after a connect to a peer has failed (with no retry
\* hint of the transport), no pass of the manage loop connects to the peer.
C7NoConnectAfterFailure ==
    [][\A p \in Peers :
         (out'.op = "connect" /\ out'.dial = p) => ~Has(hist.fail, p)]_vars

PruneHandled(p) ==
    /\ out.op = "connect"
    /\ out.peer = p
    /\ out.ret = "ConnectError"
    /\ PlainFailures(p) > maxConnAttempts

\* C10, as found: once the failed connect that prunes a peer is handled the
\* peer is out of the address book and still among the known peers; a later
\* pass of the manage loop, finding no address book entry, removes it from
\* the known peers.
C10PrunedFromAddressBookThenKnownPeers ==
    \A p \in PrunePeers :
        /\ PruneHandled(p) => (p \notin addressBook /\ p \in knownPeers)
        /\ (out.op = "stale" /\ out.peer = p)
             => (p \notin addressBook /\ p \notin knownPeers)

\* C10, as claimed: once the failed connect that prunes a peer is handled
\* the peer is in neither the known peers nor the address book.
C10PrunedFromBoth ==
    \A p \in PrunePeers :
        PruneHandled(p) => (p \notin addressBook /\ p \notin knownPeers)

C10Witness ==
    \E p \in PrunePeers :
        /\ out.op = "stale"
        /\ out.peer = p
        /\ PlainFailures(p) > maxConnAttempts

\* the XOR distance of a and b, read as an unsigned integer
XorDistance(a, b) ==
    LET RECURSIVE D(_)
        D(i) == IF i = AddrBits THEN 0
                ELSE (IF Bit(a, i) # Bit(b, i) THEN Pow2(AddrBits - 1 - i) ELSE 0)
                     + D(i + 1)
    IN  D(0)

\* the candidate nearest to addr if one is strictly nearer than base, else
\* WantSelf
NearestOrSelf(addr, candidates) ==
    LET nearer == {p \in candidates :
                     XorDistance(addr, p) < XorDistance(addr, base)}
    IN  IF nearer = {} THEN <<None, "WantSelf">>
        ELSE <<CHOOSE p \in nearer :
                 \A q \in nearer : XorDistance(addr, p) <= XorDistance(addr, q),
               "nil">>

C13SubscribersSignalled ==
    [][connectedPeers' # connectedPeers =>
         /\ Len(peerSig') = Len(peerSig)
         /\ \A i \in DOMAIN peerSig : peerSig'[i] = 1]_vars

C13Witness ==
    /\ out.op = "Disconnected"
    /\ out.peer \notin connectedPeers
    /\ Len(peerSig) = MaxSubscribers
    /\ \A i \in DOMAIN peerSig : peerSig[i] = 1
    /\ hist.calls > 1

\* C14: the manage loop turns to its bootnodes only from the end of the
\* bin-filling pass and with no peer connected; in a round it connects to at
\* most 3 bootnodes and dials no bootnode more than maxBootnodeAttempts
\* times.
C14BootnodesOnlyWhenAlone ==
    [][/\ (mg'.pc = "boot" /\ mg.pc # "boot") =>
             (mg.pc = "binfill" /\ connectedPeers' = {})
       /\ out'.op = "bootnode" => mg.pc = "boot"
       /\ Cardinality(hist'.joined) <= maxBootnodes
       /\ \A addr \in DOMAIN hist'.dials :
             hist'.dials[addr] <= maxBootnodeAttempts]_vars

C14Witness ==
    /\ out.op = "bootnode"
    /\ Cardinality(hist.joined) = maxBootnodes
    /\ Len(bootnodes) > maxBootnodes

\* the connected peer nearest to the pseudo address j of bin b shares at
\* least b + bitSuffixLength + 1 leading bits with it
BalancedAt(b, j) ==
    LET pseudoAddr == commonBinPrefixes(b, j)
    IN  /\ connectedPeers # {}
        /\ \A p \in connectedPeers :
              (\A q \in connectedPeers :
                 XorDistance(pseudoAddr, p) <= XorDistance(pseudoAddr, q))
              => ExtendedProximity(p, pseudoAddr) >= b + bitSuffixLength + 1

AllBalanced ==
    \A b \in Bins, j \in 0 .. Pow2(bitSuffixLength) - 1 : BalancedAt(b, j)

\* C15: with a connectable peer known in every sub-bin, the manage loop
\* eventually reaches a state where, for every bin b and every suffix j, the
\* connected peer closest to the pseudo address (b, j) has extended
\* proximity at least b + bitSuffixLength + 1 to it.
C15EventuallyBalanced == (BalancePeers \subseteq knownPeers) ~> AllBalanced

C15Witness ==
    /\ AllBalanced
    /\ out.op = "connect"
    /\ BalanceCrowd \cap connectedPeers # BalanceCrowd

\* the step is one of the balanced pass and dials a peer or drops one
BalancedDialing ==
    mg.pc = "balanced" /\ out'.op \in {"connect", "stale"}

\* C16, as found: a node configured with a negative bitSuffixLength has no
\* pseudo addresses and its balanced pass dials nobody, only the bin-filling
\* pass does; a node configured with 0 gets the default length and its
\* 2^defaultBitSuffixLength pseudo addresses per bin.
C16NegativeDisablesBalancing ==
    [][/\ hist.configured < 0 => (SuffixCount = 0 /\ ~BalancedDialing)
       /\ hist.configured = 0 =>
             (bitSuffixLength = defaultBitSuffixLength
              /\ SuffixCount = Pow2(defaultBitSuffixLength))]_vars

\* C16, as claimed: a node configured with bitSuffixLength 0 has no pseudo
\* addresses and its balanced pass dials nobody.
C16ZeroDisablesBalancing ==
    [][hist.configured = 0 => (SuffixCount = 0 /\ ~BalancedDialing)]_vars

C16Witness ==
    /\ hist.configured < 0
    /\ out.op = "connect"
    /\ out.ret = "nil"
    /\ mg.pc = "binfill"

\* the i-th run of maxBatchSize consecutive peers of a list
Window(peers, i) ==
    SubSeq(peers, maxBatchSize * (i - 1) + 1,
           IF maxBatchSize * i < Len(peers) THEN maxBatchSize * i ELSE Len(peers))

Windows(peers) == (Len(peers) + maxBatchSize - 1) \div maxBatchSize

\* the peers of a list that have an address book entry, in the list's order
Held(peers) == SelectSeq(peers, LAMBDA p : p \in addressBook)

RECURSIVE Flatten(_)
Flatten(msgs) ==
    IF msgs = <<>> THEN <<>> ELSE Head(msgs) \o Flatten(Tail(msgs))

\* the sends of a broadcast that fail if they are made
FailingSends(peers, fail, broken) ==
    {i \in 1 .. Windows(peers) :
        \/ fail.at = i
        \/ \E n \in 1 .. Len(Window(peers, i)) : Window(peers, i)[n] = broken}

FirstOf(S) == CHOOSE i \in S : \A j \in S : i <= j

\* C17: BroadcastPeers sends the peers in order in consecutive messages of
\* at most maxBatchSize records, the i-th message holding the peers of the
\* i-th run of the list that have an address book entry, so that on success
\* each of them is in exactly one message; the first send that fails ends the
\* broadcast with an error, and no stream is opened for the batches after it.
C17BatchesInOrderUntilFailure ==
    out.op = "BroadcastPeers" =>
        LET peers == out.peers
            failing == FailingSends(peers, out.fail, out.broken)
        IN  /\ \A i \in 1 .. Len(out.sent) :
                    /\ Len(out.sent[i]) <= maxBatchSize
                    /\ out.sent[i] = Held(Window(peers, i))
            /\ failing = {} =>
                    /\ out.ret = "nil"
                    /\ Len(out.sent) = Windows(peers)
                    /\ out.streams = Windows(peers)
                    /\ Flatten(out.sent) = Held(peers)
            /\ failing # {} =>
                    /\ out.ret # "nil"
                    /\ Len(out.sent) = FirstOf(failing) - 1
                    /\ out.streams <= FirstOf(failing)
                    /\ out.fail.at = FirstOf(failing) /\ out.ret # "addressbook"
                           => out.ret = out.fail.err

\* a list of three batches with peers that have no entry, the second send
\* failing
C17Witness ==
    /\ out.op = "BroadcastPeers"
    /\ Windows(out.peers) = 3
    /\ out.ret = "write Peers message"
    /\ Len(out.sent) = 1
    /\ Len(out.sent[1]) \in 1 .. maxBatchSize - 1

\* the step is a request for addr answered by chunkGetHandler
Requested(addr) ==
    /\ node'.gets = node.gets + 1
    /\ out'.op = "Get"
    /\ out'.addr = addr

C19RecoveryIffCallbackAndTargets ==
    [][\A addr \in ChunkAddrs :
          /\ Requested(addr)
          /\ out'.failure # "get"
          /\ ~Has(node.chunks, addr)
          /\ addr \notin node.network
          => IF node.recoveryCallback /\ out'.targets # NoTargets
             THEN /\ out'.ret = "RecoveryAttempt"
                  /\ out'.status = 202
                  /\ node'.recovered =
                         Append(node.recovered, <<addr, out'.targets>>)
             ELSE /\ out'.ret = "NotFound"
                  /\ out'.status = 404
                  /\ node'.recovered = node.recovered]_vars

C19Witness ==
    /\ out.op = "Get"
    /\ out.ret = "RecoveryAttempt"
    /\ node.recovered = <<<<out.addr, out.targets>>>>
    /\ node.gets = 2

\* the number of receipts that went from node r back to node s: the
\* successful hops from s to r
Hops(msgs, s, r) ==
    Cardinality({i \in 1 .. Len(msgs) : msgs[i] = Receipt(r, s)})

\* C20: in every push, node S's balance for node R goes down by the fixed
\* price for each hop from S to R whose receipt came back, and up by the
\* fixed price for each such hop from R to S; between nodes without such a
\* hop, as where the delivery attempt failed, no balance changes.
C20HopsAccounted ==
    [][out'.op = "PushChunkToClosest" /\ node'.pushes = node.pushes + 1 =>
          \A s, r \in PushNodes :
              node'.balances[s][r] - node.balances[s][r] =
                  fixedPrice * Hops(out'.sent, r, s)
                  - fixedPrice * Hops(out'.sent, s, r)]_vars

\* node 1 could not reach node 3, pushed to node 2 instead and got the
\* receipt: the balances of 1 and 3 are untouched, those of 1 and 2 booked
C20Witness ==
    /\ out.op = "PushChunkToClosest"
    /\ out.ret = "nil"
    /\ out.peer = 1
    /\ 3 \in out.down
    /\ node.links = Fork
    /\ node.pushes = 1
    /\ node.balances[1][2] = 0 - fixedPrice
    /\ node.balances[2][1] = fixedPrice
    /\ node.balances[1][3] = 0
    /\ node.balances[3][1] = 0

\* the peers node self tried in a push, in order
TriedBy(tried, self) ==
    SelectSeq(tried, LAMBDA t : t[1] = self)

\* C21: when the closest peer of the pushing node cannot be reached and a
\* next-closest peer is there, the node tries exactly one more peer, the
\* closest of the others; when that peer answers, the push returns the receipt
\* that came back from it, for the address of the chunk pushed, and the tag's
\* Sent counter is one higher than before the push.
C21RetriedOnceWithNextClosest ==
    [][out'.op = "PushChunkToClosest" /\ node'.pushes = node.pushes + 1 =>
          LET self == out'.peer
              first == Forwarders(node.links, self, {})
              others == first \ {ClosestOf(first)}
              mine == TriedBy(out'.tried, self)
          IN  first # {} /\ ClosestOf(first) \in out'.down /\ others # {} =>
                  /\ Len(mine) = 2
                  /\ mine[1][2] = ClosestOf(first)
                  /\ mine[2][2] = ClosestOf(others)
                  /\ out'.ret = "nil" =>
                         /\ out'.receipt.address = out'.chunk
                         /\ out'.sent[Len(out'.sent)]
                                = Receipt(ClosestOf(others), self)
                         /\ node'.Sent = node.Sent + 1
                  /\ out'.ret # "nil" => node'.Sent = node.Sent]_vars

\* node 1 of the fork could not reach node 3, and node 2 returned the receipt
\* signed by node 4
C21Witness ==
    /\ out.op = "PushChunkToClosest"
    /\ out.peer = 1
    /\ node.links = Fork
    /\ out.down = {3}
    /\ out.ret = "nil"
    /\ TriedBy(out.tried, 1) = <<<<1, 3>>, <<1, 2>>>>
    /\ out.receipt = SignedReceipt(out.chunk, 4)
    /\ node.Sent = 1

\* the number of blocks that hold n bytes
BlocksOf(n) == (n + ChunkSize - 1) \div ChunkSize

\* C22: every block a chunk pipe passes downstream but the last has
\* ChunkSize bytes and the last has from 1 to ChunkSize; before Close every
\* block has ChunkSize bytes, and after a Close that succeeded n bytes given
\* in any number of writes went down in ceil(n / ChunkSize) blocks.
C22BlocksOfChunkSize ==
    LET blocks == node.blocks
    IN  /\ \A i \in 1 .. Len(blocks) :
               /\ Len(blocks[i]) \in 1 .. ChunkSize
               /\ i < Len(blocks) => Len(blocks[i]) = ChunkSize
        /\ ~node.closed =>
               \A i \in 1 .. Len(blocks) : Len(blocks[i]) = ChunkSize
        /\ node.closed /\ out.ret = "nil" =>
               /\ Len(blocks) = BlocksOf(node.given)
               /\ node.given > 0 =>
                      Len(blocks[Len(blocks)])
                          = node.given - ChunkSize * (Len(blocks) - 1)

\* three writes, none of a block's size, closed with a short last block
C22Witness ==
    /\ node.closed
    /\ out.ret = "nil"
    /\ node.writes = 3
    /\ node.given = 1 + (ChunkSize - 1) + (ChunkSize + 1)
    /\ Len(node.blocks) = 3
    /\ Len(node.blocks[3]) = 1

\* the chunks of a tree over leaves leaves, each level holding one chunk
\* for every group of 2^bits chunks of the level below, up to the root
RECURSIVE TreeChunks(_, _)
TreeChunks(leaves, bits) ==
    IF leaves[1] = 0 /\ leaves[2] <= 1 THEN NumOf(1)
    ELSE NumAdd(leaves, TreeChunks(CeilShr(leaves, bits), bits))

ChunksOfTree(contentLength, isEncrypted) ==
    TreeChunks(CeilShr(contentLength, 12), IF isEncrypted THEN 6 ELSE 7)

\* C23, for lengths below 2^53: calculateNumberOfChunks returns the number
\* of chunks of the tree over ceil(contentLength / 4096) leaves, and 1, 3, 4,
\* 26 and 248 for 1000, 5000, 10000, 100000 and 1000000 bytes unencrypted.
C23ChunksOfTreeBelow2p53 ==
    out.op = "calculateNumberOfChunks" =>
        /\ out.contentLength[1] < Pow2(53 - LimbBits) =>
               out.ret = ChunksOfTree(out.contentLength, out.isEncrypted)
        /\ ~out.isEncrypted =>
               /\ out.contentLength = NumOf(1000) => out.ret = NumOf(1)
               /\ out.contentLength = NumOf(5000) => out.ret = NumOf(3)
               /\ out.contentLength = NumOf(10000) => out.ret = NumOf(4)
               /\ out.contentLength = NumOf(100000) => out.ret = NumOf(26)
               /\ out.contentLength = NumOf(1000000) => out.ret = NumOf(248)

\* C23, as claimed: for every content length calculateNumberOfChunks
\* returns the number of chunks of the tree over ceil(contentLength / 4096)
\* leaves.
C23ChunksOfTree ==
    out.op = "calculateNumberOfChunks" =>
        out.ret = ChunksOfTree(out.contentLength, out.isEncrypted)

\* the longest length of the test: five levels and the root
C23Witness ==
    /\ out.op = "calculateNumberOfChunks"
    /\ out.contentLength = Num(19421, 9027274)
    /\ ~out.isEncrypted
    /\ out.ret = NumAdd(Num(4, 12441756), NumOf(621490 + 4856 + 38 + 1))

\* C24: a boot that finds no overlay in the store stores its overlay; a
\* boot that finds one succeeds exactly if its overlay is the stored one and
\* leaves the stored one as it is, so that with a data directory every boot
\* that succeeds has the overlay of the first that did; a boot whose store
\* fails returns the failure and stores nothing.
C24OverlayCheckedAgainstStore ==
    out.op = "Boot" =>
        /\ out.failure = "none" /\ out.before = None =>
               out.ret = "nil" /\ node.store[overlayKey] = out.overlay
        /\ out.failure # "Get" /\ out.before # None =>
               /\ out.ret = "nil" <=> out.overlay = out.before
               /\ out.ret # "nil" => out.ret = ErrOverlayChanged
               /\ node.store[overlayKey] = out.before
        /\ out.failure = "Get" \/ (out.failure = "Put" /\ out.before = None) =>
               out.ret = ErrStore /\ node.store[overlayKey] = out.before
        /\ node.dataDir # "" /\ out.ret = "nil" =>
               out.overlay = node.first /\ node.store[overlayKey] = node.first

\* a third boot with another overlay than the one the first stored
C24Witness ==
    /\ out.op = "Boot"
    /\ node.boots = 3
    /\ node.dataDir # ""
    /\ out.before # None
    /\ out.overlay # out.before
    /\ out.ret = ErrOverlayChanged
    /\ node.store[overlayKey] = out.before

C26FailedBroadcastDisconnects ==
    out.op = "announce" /\ out.ret # "nil" =>
        /\ out.peer \notin p2pPeers
        /\ out.peer \notin connectedPeers
        /\ node.pc = "idle"
        /\ ~out.inbound => Has(waitNext, out.peer)

\* the broadcast to a peer that dialed in fails, two peers being connected
C26Witness ==
    /\ out.op = "announce"
    /\ out.ret = "BroadcastError"
    /\ out.inbound
    /\ Cardinality(connectedPeers) = 2
    /\ \E msg \in out.sent : msg.to = out.peer /\ msg.peers = connectedPeers
    /\ out.peer \notin p2pPeers

\* C27, as the code has it: when connect finds another overlay than the
\* expected peer behind the dialed underlay it returns errOverlayMismatch and
\* the pass removes the expected peer from known_peers and from the address
\* book and does not add it to connected_peers. If the connection was made
\* by this dial, both overlays are disconnected; if the p2p service was
\* already connected to that overlay, nothing is disconnected.
C27MismatchRemovesExpectedPeer ==
    /\ out.op = "connect" /\ node.found # None /\ node.found # out.peer =>
           out.ret = "errOverlayMismatch"
    /\ out.op = "connect" /\ out.ret = "errOverlayMismatch" =>
           /\ node.found # out.peer
           /\ out.peer \notin knownPeers
           /\ out.peer \notin addressBook
           /\ out.peer \notin connectedPeers
           /\ out.sent = {}
           /\ node.fresh => out.peer \notin p2pPeers /\ node.found \notin p2pPeers
           /\ ~node.fresh => node.found \in p2pPeers

\* C27, as claimed: whenever connect returns errOverlayMismatch both
\* overlays are disconnected.
C27MismatchDisconnectsBoth ==
    out.op = "connect" /\ out.ret = "errOverlayMismatch" =>
        out.peer \notin p2pPeers /\ node.found \notin p2pPeers

\* the underlay of P0 is dialed and an overlay not heard of answers, other
\* peers being connected
C27Witness ==
    /\ out.op = "connect"
    /\ out.ret = "errOverlayMismatch"
    /\ node.fresh
    /\ out.peer = P0
    /\ node.found = Stranger
    /\ connectedPeers # {}
    /\ P0 \notin knownPeers \cup addressBook \cup connectedPeers \cup p2pPeers
    /\ Stranger \notin p2pPeers

\* the peer a pass of manage is about to dial, None if it is at its end
AboutToDial ==
    LET r == IF mg.pc = "balanced" THEN BalancedScan(mg.pos)
             ELSE BinFillScan(mg.todo \cap knownPeers)
    IN  IF mg.pc \in {"balanced", "binfill"} /\ r.kind # "end" THEN r.peer
        ELSE None

\* C28: when the address book has no entry for the known peer a pass of the
\* manage loop is about to dial, the pass removes the peer from known_peers
\* and attempts no connect: no connection is made, no retry time written,
\* nothing announced; and every connect the loop attempts is to a peer the
\* address book has an entry for.
C28StalePeerRemovedNotDialed ==
    [][mg' # mg /\ AboutToDial # None =>
          /\ AboutToDial \notin addressBook =>
                /\ AboutToDial \notin knownPeers'
                /\ knownPeers' = knownPeers \ {AboutToDial}
                /\ out'.op = "stale" /\ out'.peer = AboutToDial
                /\ out'.dial = None /\ out'.sent = {}
                /\ UNCHANGED <<connectedPeers, p2pPeers, waitNext, addressBook,
                               depth, hist>>
          /\ out'.op = "connect" =>
                out'.peer = AboutToDial /\ AboutToDial \in addressBook]_vars

\* the balanced pass has found a known peer without an address book entry
\* and removed it, other known peers remaining
C28Witness ==
    /\ out.op = "stale"
    /\ mg.pc = "binfill"
    /\ mg.todo = knownPeers
    /\ out.peer \notin knownPeers \cup addressBook
    /\ knownPeers # {}

\* a connect of the manage loop has ended with the error err of p2p.Connect
ConnectEndedWith(errs) ==
    out.op = "connect" /\ node.service = "p2p" /\ node.err \in errs

\* C29, as the code has it: a connect attempt ended by a cancellation, the
\* connect timeout or a transport error leaves the peer among the known peers
\* and schedules a retry; it counts as a failed attempt unless the transport
\* asked to wait, and the attempt that brings the count past maxConnAttempts
\* removes the peer's address book entry.
C29FailedAttemptsCounted ==
    ConnectEndedWith(TransientErrors) =>
        /\ out.peer \in knownPeers
        /\ out.peer \notin connectedPeers \cup p2pPeers
        /\ Has(waitNext, out.peer) /\ waitNext[out.peer].tryAfter > now
        /\ node.err = "ConnectionBackoffError" =>
               out.peer \in addressBook /\ waitNext[out.peer].failedAttempts = 0
        /\ node.err # "ConnectionBackoffError" =>
               /\ waitNext[out.peer].failedAttempts <= maxConnAttempts
               /\ out.peer \in addressBook <=>
                      waitNext[out.peer].failedAttempts > 0

\* C29, as claimed: a connect attempt ended by a cancellation, the connect
\* timeout or a transport error never removes the peer from the address
\* book or from known_peers.
C29NeverRemoved ==
    ConnectEndedWith(TransientErrors) =>
        out.peer \in addressBook /\ out.peer \in knownPeers

\* the shutdown of the manage loop cancels the fourth dial of a peer in a
\* row that did not get through
C29Witness ==
    /\ ConnectEndedWith({"context canceled"})
    /\ now = 3 * timeToRetry
    /\ out.peer \notin addressBook
    /\ out.peer \in knownPeers
    /\ waitNext[out.peer] = retryInfo(now + timeToRetry, 0)

\* C30: in the bin-filling pass a connect is attempted only to a known peer
\* that is not connected, whose retry time has come and whose bin
\* saturationFunc reports as not saturated; and once a bin was reported
\* saturated in the pass, no further peer of that bin is visited, so none is
\* dialed, whatever happens to the bin meanwhile.
C30DialsOnlyUnsaturatedBins ==
    [][mg.pc = "binfill" /\ mg' # mg =>
          /\ out'.op = "connect" =>
                /\ out'.peer \in knownPeers
                /\ out'.peer \notin connectedPeers
                /\ ~(Has(waitNext, out'.peer) /\ now < waitNext[out'.peer].tryAfter)
                /\ ~saturationFunc(PO(out'.peer), knownPeers,
                                   connectedPeers).saturated
          /\ out'.op \in {"connect", "skip", "saturated", "stale"} =>
                PO(out'.peer) \notin node.reported
          /\ out'.op = "saturated" =>
                /\ saturationFunc(PO(out'.peer), knownPeers,
                                  connectedPeers).saturated
                /\ PO(out'.peer) \in node'.reported
                /\ UNCHANGED <<connectedPeers, p2pPeers, waitNext, hist>>]_vars

\* the pass has dialed the peer of bin 1 after it found bin 0 saturated; a
\* peer of bin 0 has been disconnected since, the bin is not saturated any
\* more and a peer of it that could be dialed is left
C30Witness ==
    /\ mg.pc = "binfill"
    /\ out.op = "connect"
    /\ out.peer = P1
    /\ 0 \in node.reported
    /\ ~saturationFunc(0, knownPeers, connectedPeers).saturated
    /\ \E q \in BinOf(knownPeers, 0) : q \notin connectedPeers /\ ~Sanctioned(q)

\* C31: after every call of AddPeers a wake-up waits in manageC until a pass
\* begins, whether the call came while manage was idle, during a pass or
\* with a wake-up waiting already; the peer is among the known peers when
\* the call returns; and a pass does begin after the call.
C31AddPeersWakesManage ==
    /\ [](node.waiting # {} => manageC = 1)
    /\ [](out.op = "AddPeers" => out.peer \in knownPeers)
    /\ \A p \in WakePeers :
          (p \in node.waiting) ~> (p \notin node.waiting /\ p \in node.covered)

\* AddPeers was called during a pass, after another call whose wake-up the
\* pass had received
C31Witness ==
    /\ mg.pc = "binfill"
    /\ out.op = "AddPeers"
    /\ node.waiting # {}
    /\ node.covered # {}
    /\ manageC = 1

\* C32, as the code has it: a connected peer is a known peer unless it
\* dialed in while an iteration of the manage loop was busy with it, which
\* then removed it from the known peers.
C32ConnectedKnownUnlessRaced ==
    /\ connectedPeers \ knownPeers \subseteq node.raced
    /\ out.op = "Connected" /\ out.ret = "ok" => out.peer \in knownPeers

\* C32, as claimed: connected_peers is a subset of known_peers.
C32ConnectedSubsetKnown == connectedPeers \subseteq knownPeers

\* P0 dialed in while connect was dialing its underlay, behind which P1
\* answered, connected already: P0 is connected and not known
C32Witness ==
    /\ out.op = "connect"
    /\ out.peer = P0
    /\ out.ret = "errOverlayMismatch"
    /\ ~node.fresh
    /\ node.found = P1
    /\ P0 \in connectedPeers \cap p2pPeers
    /\ P0 \notin knownPeers

\* C33: whenever no operation on the topology is under way, the depth, and
\* what NeighborhoodDepth() returned since, is recalcDepth of the connected
\* peers.
C33DepthOfConnectedWhenQuiet ==
    node.pending = {} =>
        /\ depth = recalcDepth(connectedPeers)
        /\ out.op = "NeighborhoodDepth" => out.ret = recalcDepth(connectedPeers)

\* operations overlapped, one took depthMu after another had changed the
\* peers, all have returned, and the depth read afterwards is not 0
C33Witness ==
    /\ node.service = "goroutines"
    /\ node.pending = {}
    /\ node.overlapped
    /\ out.op = "NeighborhoodDepth"
    /\ out.ret > 0

C35NotFoundIffNoneConnected ==
    [][\A addr \in ClosestTargets, skip \in SkipLists :
         ClosestPeer(addr, skip) =>
           /\ out'.ret[2] = "NotFound" <=> connectedPeers = {}
           /\ out'.ret[2] = "NotFound" => out'.ret[1] = None
           /\ (connectedPeers # {} /\ connectedPeers \subseteq skip) =>
                 out'.ret = <<None, "WantSelf">>]_vars

\* ClosestPeer was asked for the address of the one connected peer, which
\* the p2p service lists, and returned WantSelf: the peer was in the skip
\* list
C35Witness ==
    /\ out.op = "ClosestPeer"
    /\ out.ret = <<None, "WantSelf">>
    /\ connectedPeers = {out.peer}
    /\ out.peer \in p2pPeers

\* C36: ClosestPeer never returns a peer the p2p
\* service does not list; every connected peer that is missing from that
\* list and not in the skip list is removed from the connected peers and
\* given a retry time of now + timeToRetry; the membership of all other
\* peers and the known peers are left unchanged. This holds also for a call
\* that returns WantSelf; a call that finds no peer connected changes
\* nothing.
C36LostPeersDisconnected ==
    [][\A addr \in ClosestTargets, skip \in SkipLists :
         ClosestPeer(addr, skip) =>
           LET lost == (connectedPeers \ p2pPeers) \ skip
           IN  /\ out'.ret[2] = "nil" => out'.ret[1] \in p2pPeers \cap connectedPeers'
               /\ connectedPeers' = connectedPeers \ lost
               /\ knownPeers' = knownPeers
               /\ DOMAIN waitNext' = DOMAIN waitNext \cup lost
               /\ \A q \in DOMAIN waitNext' :
                     waitNext'[q] = IF q \in lost
                                    THEN retryInfo(now + timeToRetry, 0)
                                    ELSE waitNext[q]
               /\ depth' = recalcDepth(connectedPeers')]_vars

\* ClosestPeer returned a peer and removed another: one that the p2p
\* service had lost is out of the connected peers and has its retry time,
\* more than one peer stays connected
C36Witness ==
    /\ out.op = "ClosestPeer"
    /\ out.ret[2] = "nil"
    /\ \E q \in knownPeers \ connectedPeers :
          /\ q \notin p2pPeers
          /\ Has(waitNext, q)
          /\ waitNext[q] = retryInfo(now + timeToRetry, 0)
    /\ Cardinality(connectedPeers) >= 2
    /\ connectedPeers \ p2pPeers # {}

\* C37, as the code has it: the bytes written to the hashing job are bytes
\* read from the input, in order and without gap up to the last one
\* written; when Split returns an address the bytes read and not hashed
\* are exactly those that the last Read returned together with io.EOF.
C37HashedButFinalRead ==
    node.service = "splitter" =>
        /\ node.hashed = Bytes(0, Len(node.hashed))
        /\ Len(node.hashed) <= node.total
        /\ node.pc = "done" =>
              /\ node.hashed \o node.dropped = Bytes(0, node.total)
              /\ Len(node.dropped) = node.last
              /\ node.total = node.length
              /\ node.total >= node.dataLength

\* C37, as claimed: when Split returns an address every byte read was
\* passed to the hashing job, in order.
C37AllBytesHashed ==
    (node.service = "splitter" /\ node.pc = "done") =>
        node.hashed = Bytes(0, node.total)

\* Split returned an address after a Read that returned the last bytes
\* together with io.EOF; bytes read before were hashed, those were not
C37Witness ==
    /\ node.service = "splitter"
    /\ node.pc = "done"
    /\ node.hashed # <<>>
    /\ node.dropped # <<>>
    /\ node.last = Len(node.dropped)
    /\ node.total = node.dataLength

\* the concatenation of the blocks
RECURSIVE Concat(_)
Concat(blocks) ==
    IF blocks = <<>> THEN <<>> ELSE Head(blocks) \o Concat(Tail(blocks))

\* C38, as the code has it: the blocks passed downstream, one after the
\* other, followed by the bytes the buffer holds up to the cursor, are the
\* bytes Write accepted, in order; after a Close that succeeded the blocks
\* alone are all the bytes given. The cursor is within [0, ChunkSize]
\* between calls as long as the reading side is open, so that no write
\* downstream has failed, and within the buffer always.
C38BlocksAreBytesGiven ==
    node.service = "chunkpipe" =>
        /\ (~node.closed \/ out.ret # "nil") =>
              Concat(node.blocks) \o SubSeq(node.data, 1, node.cursor)
                  = Bytes(0, node.given)
        /\ (node.closed /\ out.ret = "nil") =>
              Concat(node.blocks) = Bytes(0, node.given)
        /\ node.cursor \in 0 .. maxBufferSize
        /\ ~node.readerClosed => node.cursor \in 0 .. ChunkSize

\* C38, as claimed, of the cursor: it is within [0, ChunkSize] between
\* calls.
C38CursorWithinChunk ==
    node.service = "chunkpipe" => node.cursor \in 0 .. ChunkSize

\* three writes that split the bytes otherwise than the blocks do, a Close
\* that flushed a short block; before it the cursor was not 0
C38Witness ==
    /\ node.service = "chunkpipe"
    /\ node.closed
    /\ out.ret = "nil"
    /\ node.writes = 3
    /\ node.cursor = ChunkSize - 1
    /\ node.given = (ChunkSize - 1) + (ChunkSize + 1) + (ChunkSize - 1)
    /\ Len(node.blocks) = 3

\* the number of leading bits two addresses share
SharedBits(a, b) ==
    LET diff == {l \in 1 .. Len(a) : a[l] # b[l]}
    IN  IF diff = {} THEN Len(a) ELSE SetMin(diff) - 1

\* C39, as the code has it: the pseudo address j of bin i equals the base
\* address in bits 0..i-1, differs from it in bit i, carries in bits
\* i+1..i+bitSuffixLength the low eight bits of j, most significant first,
\* below zeros for the bits of j from the ninth on, and is zero in all
\* later bits; its proximity to the base is exactly i.
C39PseudoAddressOfByteSuffix ==
    (node.service = "prefixes" /\ node.addr # <<>>) =>
        LET a == node.addr
            i == node.i
        IN  /\ Len(a) = PrefixBits
            /\ \A l \in 0 .. PrefixBits - 1 :
                  a[l + 1] =
                    IF l < i THEN node.base[l + 1]
                    ELSE IF l = i THEN 1 - node.base[l + 1]
                    ELSE IF l <= i + node.bsl
                    THEN LET pos == i + node.bsl - l
                         IN  IF pos < 8 THEN (node.j \div Pow2(pos)) % 2 ELSE 0
                    ELSE 0
            /\ SharedBits(a, node.base) = i

\* C39, as claimed: bits i+1..i+bitSuffixLength of the pseudo address carry
\* j, most significant bit first.
C39PseudoAddressCarriesSuffix ==
    (node.service = "prefixes" /\ node.addr # <<>>) =>
        \A l \in node.i + 1 .. node.i + node.bsl :
            node.addr[l + 1] = (node.j \div Pow2(node.i + node.bsl - l)) % 2

\* the pseudo address 257 of a bin other than 0, with nine bits of suffix,
\* has been generated: its suffix is that of pseudo address 1
C39Witness ==
    /\ node.service = "prefixes"
    /\ node.addr # <<>>
    /\ node.bsl = 9
    /\ node.j = 257
    /\ node.i > 0
    /\ node.addr[node.i + 1 + 9] = 1
    /\ node.addr[node.i + 1 + 1] = 0

\* the smaller and the larger of two numbers
Least(a, b) == IF a < b THEN a ELSE b

Most(a, b) == IF a > b THEN a ELSE b

\* C40, as the code has it: PinnedChunks skips the first offset pinned
\* chunks (none for an offset below 1) and returns the chunks that follow,
\* in the order of the index: at most min(limit, 1000) of them for a limit
\* of 1 or more, and all of them, however many, for a limit of 0 or less.
C40PageUnlessLimitBelowOne ==
    (node.service = "localstore" /\ node.pc = "done") =>
        LET skipped == Most(node.given.offset, 0)
            rest == Most(node.pinned - skipped, 0)
            page == Least(node.given.limit, maxPage)
        IN  /\ node.returned = IF page >= 1 THEN Least(page, rest) ELSE rest
            /\ node.returned > 0 => node.first = skipped + 1

\* C40, as claimed: PinnedChunks returns at most min(limit, 1000) entries,
\* for every integer value of limit (no entry for a limit below 0).
C40AtMostPage ==
    (node.service = "localstore" /\ node.pc = "done") =>
        node.returned <= Most(Least(node.given.limit, maxPage), 0)

\* called with limit 0 on an index of more than maxPage pinned chunks,
\* PinnedChunks returned them all but the two skipped
C40Witness ==
    /\ node.service = "localstore"
    /\ node.pc = "done"
    /\ node.given.limit = 0
    /\ node.given.offset = 2
    /\ node.returned = maxPage
    /\ node.first = 3

====
